---- MODULE Spec2Model ----
(***************************************************************************)
(* rnsec: the rule engine (src/core/ruleEngine.ts), the helpers it calls   *)
(* and the scan command of the CLI that drives it.                         *)
(*                                                                         *)
(* Strings whose characters matter (file paths, declared file types, path  *)
(* markers) are sequences of one-character strings, so that endsWith,      *)
(* includes, toLowerCase and lastIndexOf are computed as JavaScript        *)
(* computes them.  A file's text is a sequence of lines; a line is named   *)
(* by what it holds (see "File contents" below).                           *)
(***************************************************************************)
EXTENDS Integers, Sequences, FiniteSets, TLC

(***************************************************************************)
(* Bounds of the model.                                                    *)
(***************************************************************************)
\* longest file list handed to a scan
MaxFiles == 2
\* scans run one after the other on one RuleEngine instance
MaxScans == 2

(***************************************************************************)
(* String primitives of JavaScript, on sequences of characters.            *)
(***************************************************************************)
LowerOf ==
  [c \in {"A","B","C","D","E","F","G","H","I","J","K","L","M",
          "N","O","P","Q","R","S","T","U","V","W","X","Y","Z"} |->
     CASE c = "A" -> "a" [] c = "B" -> "b" [] c = "C" -> "c" [] c = "D" -> "d"
       [] c = "E" -> "e" [] c = "F" -> "f" [] c = "G" -> "g" [] c = "H" -> "h"
       [] c = "I" -> "i" [] c = "J" -> "j" [] c = "K" -> "k" [] c = "L" -> "l"
       [] c = "M" -> "m" [] c = "N" -> "n" [] c = "O" -> "o" [] c = "P" -> "p"
       [] c = "Q" -> "q" [] c = "R" -> "r" [] c = "S" -> "s" [] c = "T" -> "t"
       [] c = "U" -> "u" [] c = "V" -> "v" [] c = "W" -> "w" [] c = "X" -> "x"
       [] c = "Y" -> "y" [] c = "Z" -> "z"]

\* String.prototype.toLowerCase
toLowerCase(s) ==
  [k \in 1..Len(s) |-> IF s[k] \in DOMAIN LowerOf THEN LowerOf[s[k]] ELSE s[k]]

\* String.prototype.includes
includes(s, sub) ==
  \E k \in 0..(Len(s) - Len(sub)) :
    \/ sub = << >>
    \/ s[k + 1] = sub[1] /\ SubSeq(s, k + 1, k + Len(sub)) = sub

\* String.prototype.endsWith
endsWith(s, t) ==
  /\ Len(t) <= Len(s)
  /\ SubSeq(s, Len(s) - Len(t) + 1, Len(s)) = t

\* String.prototype.startsWith
startsWith(s, t) ==
  /\ Len(t) <= Len(s)
  /\ SubSeq(s, 1, Len(t)) = t

\* String.prototype.lastIndexOf for one character: 0-based, -1 when absent
lastIndexOf(s, c) ==
  IF \E k \in 1..Len(s) : s[k] = c
    THEN (CHOOSE k \in 1..Len(s) :
            /\ s[k] = c
            /\ \A j \in (k + 1)..Len(s) : s[j] # c) - 1
    ELSE -1

\* String.prototype.slice(start) with start >= 0
slice(s, start) == SubSeq(s, start + 1, Len(s))

getFileExtension(filePath) ==
  LET lastDot == lastIndexOf(filePath, ".")
  IN  IF lastDot = -1 THEN << >> ELSE slice(filePath, lastDot)

\* String.prototype.substring(start, end) with 0 <= start <= end <= length
substring(s, start, end) == SubSeq(s, start + 1, end)

\* the 0-based indices at which sub occurs in s
Occurrences(s, sub) ==
  { k \in 0..(Len(s) - Len(sub)) :
      \/ sub = << >>
      \/ s[k + 1] = sub[1] /\ SubSeq(s, k + 1, k + Len(sub)) = sub }

\* \w of a regular expression
IsWordChar(c) ==
  c \in { "a","b","c","d","e","f","g","h","i","j","k","l","m",
          "n","o","p","q","r","s","t","u","v","w","x","y","z",
          "0","1","2","3","4","5","6","7","8","9","_" } \cup DOMAIN LowerOf

\* the 0-based indices at which \bsub\b matches in s (sub made of \w)
WordOccurrences(s, sub) ==
  { k \in Occurrences(s, sub) :
      /\ k = 0 \/ ~IsWordChar(s[k])
      /\ k + Len(sub) = Len(s) \/ ~IsWordChar(s[k + Len(sub) + 1]) }

\* a.*b: an occurrence of a among first, of length len, and after it on the
\* same line (. matches no line terminator) an occurrence of b among second
DotStar(s, first, len, second) ==
  \E i \in first, j \in second :
    /\ j >= i + len
    /\ \A k \in (i + len + 1)..j : s[k] # "\n"

\* Array.prototype.flatMap(x => x): concatenation of a sequence of sequences
RECURSIVE Flatten(_)
Flatten(ss) == IF ss = << >> THEN << >> ELSE Head(ss) \o Flatten(Tail(ss))

Range(s) == { s[k] : k \in DOMAIN s }

(***************************************************************************)
(* Declared file types of the rules.                                       *)
(***************************************************************************)
ExtJs    == <<".","j","s">>
ExtJsx   == <<".","j","s","x">>
ExtTs    == <<".","t","s">>
ExtTsx   == <<".","t","s","x">>
ExtJson  == <<".","j","s","o","n">>
ExtXml   == <<".","x","m","l">>
ExtPlist == <<".","p","l","i","s","t">>
ExtEnv   == <<".","e","n","v">>
ExtEnvLocal == <<".","e","n","v",".","l","o","c","a","l">>
ExtEnvProduction == <<".","e","n","v",".","p","r","o","d","u","c","t","i","o","n">>
PackageJson == <<"p","a","c","k","a","g","e",".","j","s","o","n">>

(***************************************************************************)
(* The files of the model.                                                 *)
(***************************************************************************)
\* a/App.ts
PathApp     == <<"a","/","A","p","p",".","t","s">>
\* a/package.json
PathPkg     == <<"a","/","p","a","c","k","a","g","e",".","j","s","o","n">>
\* a/Test/package.json
PathTestPkg == <<"a","/","T","e","s","t","/","p","a","c","k","a","g","e",".","j","s","o","n">>

\* a/.env: reaches the engine through a list of changed files only, since no
\* pattern of the project walk names it
PathEnv     == <<"a","/",".","e","n","v">>

Paths == { PathEnv, PathApp, PathPkg, PathTestPkg }

(***************************************************************************)
(* File contents.  A line is named by what it holds:                       *)
(*   code        an ordinary statement or entry                            *)
(*   awsKey      AWS_KEY = 'AKIA' followed by 16 upper-case alphanumerics  *)
(*   lodashOld   "lodash": "4.17.0" among the dependencies                 *)
(*   requestDep  "request": "2.88.2" among the dependencies                *)
(*   devGuard    the line if (__DEV__) {}                                  *)
(*   syntaxErr   text that neither @babel/parser nor JSON.parse accepts    *)
(* faulty names the rules whose detection function throws on the content   *)
(* (a detection function is arbitrary code behind Rule.apply).             *)
(***************************************************************************)
RuleIds == { "API_KEY_EXPOSED", "ENV_FILE_COMMITTED",
             "NPM_VULNERABLE_DEPENDENCY", "DEPRECATED_NPM_PACKAGE",
             "WEAK_TLS_CONFIGURATION", "INSECURE_RANDOM",
             "HARDCODED_ENCRYPTION_KEY", "ANDROID_CLEARTEXT_ENABLED",
             "IOS_ATS_DISABLED", "DEBUG_ENDPOINTS_EXPOSED" }

Vuln    == [lines |-> <<"lodashOld", "awsKey", "requestDep">>, faulty |-> {}]
Guarded == [lines |-> <<"lodashOld", "awsKey", "devGuard">>, faulty |-> {}]
Faulty  == [lines |-> <<"lodashOld", "awsKey", "requestDep">>,
            faulty |-> {"NPM_VULNERABLE_DEPENDENCY"}]

Broken  == [lines |-> <<"awsKey", "syntaxErr">>,
            faulty |-> {"DEPRECATED_NPM_PACKAGE"}]

Contents == { Vuln, Guarded, Faulty, Broken }

(***************************************************************************)
(* Code files.  The rules that read the characters of a code file see the  *)
(* text of its lines:                                                      *)
(*   tlsV1            an options object that selects TLSv1.0               *)
(*   sessionIdRandom  Math.random() in a function named generateSessionId  *)
(*   chartColorRandom Math.random() in a function named                    *)
(*                    getRandomChartColor                                  *)
(*   longComment      a comment of 200 characters                          *)
(*   encryptionKeyDecl  the declaration of ENCRYPTION_KEY with the literal *)
(*                    hardcoded-aes-key-256-bit-value                      *)
(***************************************************************************)
\* a/auth.ts
PathAuth == <<"a","/","a","u","t","h",".","t","s">>

TextOf ==
  [code |->
    <<"l","e","t"," ","n"," ","="," ","0",";">>,
   awsKey |->
    <<"c","o","n","s","t"," ","A","W","S","_","K","E","Y"," ","="," ","'","A",
      "K","I","A","1","2","3","4","5","6","7","8","9","0","A","B","C","D","E",
      "F","'",";">>,
   lodashOld |->
    <<"\"","l","o","d","a","s","h","\"",":"," ","\"","4",".","1","7",".","0",
      "\"",",">>,
   requestDep |->
    <<"\"","r","e","q","u","e","s","t","\"",":"," ","\"","2",".","8","8",".",
      "2","\"",",">>,
   devGuard |->
    <<"i","f"," ","(","_","_","D","E","V","_","_",")"," ","{","}">>,
   syntaxErr |->
    <<"c","o","n","s","t"," ","="," ",";">>,
   tlsV1 |->
    <<"c","o","n","s","t"," ","t","l","s"," ","="," ","{"," ","s","e","c","u",
      "r","e","P","r","o","t","o","c","o","l",":"," ","'","T","L","S","v","1",
      ".","0","'"," ","}",";">>,
   sessionIdRandom |->
    <<"f","u","n","c","t","i","o","n"," ","g","e","n","e","r","a","t","e","S",
      "e","s","s","i","o","n","I","d","(",")"," ","{"," ","r","e","t","u","r",
      "n"," ","M","a","t","h",".","r","a","n","d","o","m","(",")",";"," ",
      "}">>,
   chartColorRandom |->
    <<"f","u","n","c","t","i","o","n"," ","g","e","t","R","a","n","d","o","m",
      "C","h","a","r","t","C","o","l","o","r","(",")"," ","{"," ","r","e","t",
      "u","r","n"," ","M","a","t","h",".","r","a","n","d","o","m","(",")",";",
      " ","}">>,
   cleartextTrue |->
    <<"<","a","p","p","l","i","c","a","t","i","o","n"," ","a","n","d","r","o",
      "i","d",":","u","s","e","s","C","l","e","a","r","t","e","x","t","T","r",
      "a","f","f","i","c","=","\"","t","r","u","e","\"",">">>,
   cleartextFalse |->
    <<"<","a","p","p","l","i","c","a","t","i","o","n"," ","a","n","d","r","o",
      "i","d",":","u","s","e","s","C","l","e","a","r","t","e","x","t","T","r",
      "a","f","f","i","c","=","\"","f","a","l","s","e","\"",">">>,
   atsKey |->
    <<"<","k","e","y",">","N","S","A","p","p","T","r","a","n","s","p","o","r",
      "t","S","e","c","u","r","i","t","y","<","/","k","e","y",">">>,
   atsAllows |->
    <<"<","d","i","c","t",">","<","k","e","y",">","N","S","A","l","l","o","w",
      "s","A","r","b","i","t","r","a","r","y","L","o","a","d","s","<","/","k",
      "e","y",">">>,
   trueTag |->
    <<"<","t","r","u","e","/",">">>,
   falseTag |->
    <<"<","f","a","l","s","e","/",">">>,
   devAnd |->
    <<"_","_","D","E","V","_","_"," ","&","&"," ","c","o","n","s","o","l","e",
      ".","l","o","g","(","k","e","y",")",";">>,
   nodeEnvProd |->
    <<"i","f"," ","(","p","r","o","c","e","s","s",".","e","n","v",".","N","O",
      "D","E","_","E","N","V"," ","!","=","="," ","'","p","r","o","d","u","c",
      "t","i","o","n","'",")"," ","{","}">>,
   envDebug |->
    <<"c","o","n","s","t"," ","v","e","r","b","o","s","e"," ","="," ","p","r",
      "o","c","e","s","s",".","e","n","v",".","D","E","B","U","G",";">>,
   debugUrl |->
    <<"f","e","t","c","h","(","'","h","t","t","p",":","/","/","h","/","d","e",
      "b","u","g","/","a","'",")",";">>,
   localDebug |->
    <<"f","e","t","c","h","(","'","h","t","t","p",":","/","/","l","o","c","a",
      "l","h","o","s","t","/","d","e","b","u","g","/","'",")",";">>,
   apiDebug |->
    <<"g","e","t","(","'","/","a","p","i","/","d","e","b","u","g","/","x","'",
      ")",";">>,
   devFlag |->
    <<"c","o","n","s","t"," ","d","e","v"," ","="," ","_","_","D","E","V","_",
      "_",";">>,
   longComment |-> [k \in 1..200 |-> IF k <= 2 THEN "/" ELSE "x"],
   encryptionKeyDecl |->
    <<"c","o","n","s","t"," ","E","N","C","R","Y","P","T","I","O","N","_","K",
      "E","Y"," ","="," ","'","h","a","r","d","c","o","d","e","d","-","a","e",
      "s","-","k","e","y","-","2","5","6","-","b","i","t","-","v","a","l","u",
      "e","'",";">>]

\* longest code file, in lines
MaxLines == 3

\* the lines a code file of the model is made of
CodeKinds == { "awsKey", "syntaxErr", "tlsV1", "sessionIdRandom",
               "chartColorRandom", "longComment", "encryptionKeyDecl" }

CodeContents ==
  { [lines |-> l, faulty |-> {}] :
      l \in UNION { [1..n -> CodeKinds] : n \in 1..MaxLines } }

(***************************************************************************)
(* Manifests.  An XML file is made of the lines                            *)
(*   cleartextTrue   an application element with                           *)
(*                   android:usesCleartextTraffic="true"                   *)
(*   cleartextFalse  the same element with the attribute set to "false"    *)
(*   devGuard        as above (in a comment of the manifest)               *)
(***************************************************************************)
\* a/AndroidManifest.xml
PathManifest == <<"a","/","A","n","d","r","o","i","d","M","a","n","i","f","e","s","t",".","x","m","l">>
\* a/androidmanifest.xml
PathManifestLower == <<"a","/","a","n","d","r","o","i","d","m","a","n","i","f","e","s","t",".","x","m","l">>
\* a/test/AndroidManifest.xml
PathTestManifest ==
  <<"a","/","t","e","s","t","/","A","n","d","r","o","i","d","M","a","n","i",
    "f","e","s","t",".","x","m","l">>

ManifestPaths == { PathManifest, PathManifestLower, PathTestManifest }

XmlKinds == { "cleartextTrue", "cleartextFalse", "devGuard" }

XmlContents ==
  { [lines |-> l, faulty |-> {}] :
      l \in UNION { [1..n -> XmlKinds] : n \in 1..MaxLines } }

(***************************************************************************)
(* Property lists.  a/Info.plist holds the App Transport Security          *)
(* dictionary, on the lines                                                *)
(*   atsKey     the key NSAppTransportSecurity                             *)
(*   atsAllows  the opening of the dictionary and the key                  *)
(*              NSAllowsArbitraryLoads                                     *)
(*   trueTag, falseTag  the value of the key                               *)
(***************************************************************************)
\* a/Info.plist
PathPlist == <<"a","/","I","n","f","o",".","p","l","i","s","t">>

AtsDisabled == [lines |-> << "atsKey", "atsAllows", "trueTag" >>, faulty |-> {}]
AtsEnabled  == [lines |-> << "atsKey", "atsAllows", "falseTag" >>, faulty |-> {}]
AtsNoKey    == [lines |-> << "atsAllows", "trueTag" >>, faulty |-> {}]

PlistContents == { AtsDisabled, AtsEnabled, AtsNoKey }

(***************************************************************************)
(* a/config.ts holds findings and development guards:                      *)
(*   devAnd       __DEV__ && console.log(key);                             *)
(*   nodeEnvProd  if (process.env.NODE_ENV !== 'production') {}            *)
(*   envDebug     const verbose = process.env.DEBUG;                       *)
(*   devFlag      const dev = __DEV__; (no guard)                          *)
(***************************************************************************)
\* a/config.ts
PathConfig == <<"a","/","c","o","n","f","i","g",".","t","s">>

ConfigKinds == { "awsKey", "tlsV1", "devGuard", "devAnd", "nodeEnvProd",
                 "envDebug", "devFlag" }

ConfigContents ==
  { [lines |-> l, faulty |-> {}] :
      l \in UNION { [1..n -> ConfigKinds] : n \in 1..MaxLines } }

(***************************************************************************)
(* a/api.ts holds string literals that name endpoints:                     *)
(*   debugUrl    fetch('http://h/debug/a');                                *)
(*   localDebug  fetch('http://localhost/debug/');                         *)
(*   apiDebug    get('/api/debug/x');                                      *)
(* next to the lines devFlag, awsKey (a literal that is no URL) and        *)
(* longComment.                                                            *)
(***************************************************************************)
\* a/api.ts
PathApi == <<"a","/","a","p","i",".","t","s">>

ApiKinds == { "debugUrl", "localDebug", "apiDebug", "devFlag", "awsKey",
              "longComment" }

ApiContents ==
  { [lines |-> l, faulty |-> {}] :
      l \in UNION { [1..n -> ApiKinds] : n \in 1..MaxLines } }

\* every path of the model
AllPaths ==
  Paths \cup { PathAuth, PathPlist, PathConfig, PathApi } \cup ManifestPaths

\* the contents a path may hold: where no rule of npmVulnerabilityRules
\* applies, Faulty reads as Vuln does; an environment file is never parsed
\* and holds its assignments (awsKey among them)
ContentsAt(filePath) ==
  IF filePath = PathAuth THEN CodeContents
  ELSE IF filePath \in ManifestPaths THEN XmlContents
  ELSE IF filePath = PathPlist THEN PlistContents
  ELSE IF filePath = PathConfig THEN ConfigContents
  ELSE IF filePath = PathApi THEN ApiContents
  ELSE IF endsWith(filePath, PackageJson) THEN Contents
  ELSE IF endsWith(filePath, ExtEnv) THEN { Vuln }
  ELSE Contents \ { Faulty }

\* what the file system holds for a path: a content, or a read error
\* (readFile rejects: EACCES, ENOENT); Unknown until the path is first read
ReadError == [lines |-> << >>, faulty |-> {"<read error>"}]
Unknown   == [lines |-> << >>, faulty |-> {"<not read yet>"}]

\* an optional field (line?: number, snippet?: string, skippedFiles?: number)
\* is the empty sequence when absent and << v >> when set to v
Undefined == << >>
Some(v)   == << v >>
NoSnippet == << >>

(***************************************************************************)
(* utils/stringUtils.ts                                                    *)
(***************************************************************************)
\* content.split('\n').slice(start, end) of extractSnippet, contextLines = 2
extractSnippet(lines, line) ==
  LET start == IF line - 2 - 1 > 0 THEN line - 2 - 1 ELSE 0
      end   == IF Len(lines) < line + 2 THEN Len(lines) ELSE line + 2
  IN  SubSeq(lines, start + 1, end)

\* the path markers of isInDebugContext, in the order of the source
DebugPathMarkers ==
  << <<"/","d","e","b","u","g","/">>,
     <<"_","_","d","e","b","u","g">>,
     <<".","d","e","b","u","g",".">>,
     <<"/","d","e","v","/">>,
     <<".","d","e","v",".">>,
     <<"/","_","_","t","e","s","t","s","_","_","/">>,
     <<"/","_","_","m","o","c","k","s","_","_","/">>,
     <<"/","t","e","s","t","/">>,
     <<"/","t","e","s","t","s","/">>,
     <<".","t","e","s","t",".">>,
     <<".","s","p","e","c",".">>,
     <<"j","e","s","t","s","e","t","u","p">>,
     <<"j","e","s","t",".","s","e","t","u","p">>,
     <<"j","e","s","t",".","c","o","n","f","i","g">>,
     <<"s","e","t","u","p","t","e","s","t">>,
     <<"s","t","o","r","y","b","o","o","k">>,
     <<".","s","t","o","r","y","b","o","o","k">>,
     <<"n","o","d","e","_","m","o","d","u","l","e","s">>,
     <<"/","v","e","n","d","o","r","/">>,
     <<"/","a","s","s","e","t","s","/">>,
     <<"/","a","n","d","r","o","i","d","/","a","p","p","/","s","r","c","/",
       "m","a","i","n","/","a","s","s","e","t","s","/">>,
     <<"/","i","o","s","/","b","u","i","l","d","/">>
  >>

\* IsDebugPath without the toLowerCase of the path
IsDebugPathCaseSensitive(filePath) ==
  /\ filePath # << >>
  /\ \E m \in DOMAIN DebugPathMarkers : includes(filePath, DebugPathMarkers[m])

\* the first test of isInDebugContext: a marker in the lower-cased path
IsDebugPath(filePath) ==
  /\ filePath # << >>
  /\ \E m \in DOMAIN DebugPathMarkers :
       includes(toLowerCase(filePath), DebugPathMarkers[m])

\* \s of a regular expression, as far as the files of the model go
Whitespace == { " ", "\t", "\n", "\r" }

\* the literals of parts in turn from the 0-based position pos on, each an
\* alternative of its part, with \s* before each
RECURSIVE SpacedFrom(_, _, _)
SpacedFrom(s, pos, parts) ==
  IF parts = << >>
    THEN TRUE
    ELSE \E p \in pos..Len(s) :
           /\ \A k \in (pos + 1)..p : s[k] \in Whitespace
           /\ \E lit \in Head(parts) :
                /\ p + Len(lit) <= Len(s)
                /\ SubSeq(s, p + 1, p + Len(lit)) = lit
                /\ SpacedFrom(s, p + Len(lit), Tail(parts))

\* RegExp.prototype.test for a pattern made of literals with \s* between
\* them: parts is the sequence of the literals, each a set of alternatives
\* (x?, [ab])
Spaced(s, parts) ==
  \E lit \in Head(parts) : \E i \in Occurrences(s, lit) :
    SpacedFrom(s, i + Len(lit), Tail(parts))

\* debugPatterns of isInDebugContext, those with .* left to
\* DebugDotStarPatterns, in the order of the source
debugPatterns ==
  << \* /if\s*\(\s*__DEV__\s*\)/
     << { <<"i","f">> },
       { <<"(">> },
       { <<"_","_","D","E","V","_","_">> },
       { <<")">> } >>,
     \* /\?\s*__DEV__\s*[?:]/
     << { <<"?">> },
       { <<"_","_","D","E","V","_","_">> },
       { <<"?">>, <<":">> } >>,
     \* /__DEV__\s*&&/
     << { <<"_","_","D","E","V","_","_">> },
       { <<"&","&">> } >>,
     \* /&&\s*__DEV__/
     << { <<"&","&">> },
       { <<"_","_","D","E","V","_","_">> } >>,
     \* /process\.env\.NODE_ENV\s*===?\s*['"]development['"]/
     << { <<"p","r","o","c","e","s","s",".","e","n","v",".","N","O","D","E","_","E","N","V">> },
       { <<"=","=","=">>, <<"=","=">> },
       { <<"'","d","e","v","e","l","o","p","m","e","n","t","'">>, <<"'","d","e","v","e","l","o","p","m","e","n","t","\"">>, <<"\"","d","e","v","e","l","o","p","m","e","n","t","'">>, <<"\"","d","e","v","e","l","o","p","m","e","n","t","\"">> } >>,
     \* /process\.env\.NODE_ENV\s*!==?\s*['"]production['"]/
     << { <<"p","r","o","c","e","s","s",".","e","n","v",".","N","O","D","E","_","E","N","V">> },
       { <<"!","=","=">>, <<"!","=">> },
       { <<"'","p","r","o","d","u","c","t","i","o","n","'">>, <<"'","p","r","o","d","u","c","t","i","o","n","\"">>, <<"\"","p","r","o","d","u","c","t","i","o","n","'">>, <<"\"","p","r","o","d","u","c","t","i","o","n","\"">> } >>,
     \* /NODE_ENV\s*===?\s*['"]development['"]/
     << { <<"N","O","D","E","_","E","N","V">> },
       { <<"=","=","=">>, <<"=","=">> },
       { <<"'","d","e","v","e","l","o","p","m","e","n","t","'">>, <<"'","d","e","v","e","l","o","p","m","e","n","t","\"">>, <<"\"","d","e","v","e","l","o","p","m","e","n","t","'">>, <<"\"","d","e","v","e","l","o","p","m","e","n","t","\"">> } >>,
     \* /NODE_ENV\s*!==?\s*['"]production['"]/
     << { <<"N","O","D","E","_","E","N","V">> },
       { <<"!","=","=">>, <<"!","=">> },
       { <<"'","p","r","o","d","u","c","t","i","o","n","'">>, <<"'","p","r","o","d","u","c","t","i","o","n","\"">>, <<"\"","p","r","o","d","u","c","t","i","o","n","'">>, <<"\"","p","r","o","d","u","c","t","i","o","n","\"">> } >>,
     \* /if\s*\(\s*DEBUG\s*\)/
     << { <<"i","f">> },
       { <<"(">> },
       { <<"D","E","B","U","G">> },
       { <<")">> } >>,
     \* /\?\s*DEBUG\s*[?:]/
     << { <<"?">> },
       { <<"D","E","B","U","G">> },
       { <<"?">>, <<":">> } >>,
     \* /DEBUG\s*&&/
     << { <<"D","E","B","U","G">> },
       { <<"&","&">> } >>,
     \* /&&\s*DEBUG/
     << { <<"&","&">> },
       { <<"D","E","B","U","G">> } >>,
     \* /process\.env\.DEBUG/
     << { <<"p","r","o","c","e","s","s",".","e","n","v",".","D","E","B","U","G">> } >>,
     \* /if\s*\(\s*['"]development['"]\s*===?\s*process\.env\.NODE_ENV\s*\)/
     << { <<"i","f">> },
       { <<"(">> },
       { <<"'","d","e","v","e","l","o","p","m","e","n","t","'">>, <<"'","d","e","v","e","l","o","p","m","e","n","t","\"">>, <<"\"","d","e","v","e","l","o","p","m","e","n","t","'">>, <<"\"","d","e","v","e","l","o","p","m","e","n","t","\"">> },
       { <<"=","=","=">>, <<"=","=">> },
       { <<"p","r","o","c","e","s","s",".","e","n","v",".","N","O","D","E","_","E","N","V">> },
       { <<")">> } >>,
     \* /isDevelopment\s*&&/
     << { <<"i","s","D","e","v","e","l","o","p","m","e","n","t">> },
       { <<"&","&">> } >>,
     \* /isDebug\s*&&/
     << { <<"i","s","D","e","b","u","g">> },
       { <<"&","&">> } >>,
     \* /\.development\s*\?/
     << { <<".","d","e","v","e","l","o","p","m","e","n","t">> },
       { <<"?">> } >>,
     \* /typeof\s+__DEV__\s*!==?\s*['"]undefined['"]\s*&&\s*__DEV__/
     << { <<"t","y","p","e","o","f"," ">>, <<"t","y","p","e","o","f","	">> },
       { <<"_","_","D","E","V","_","_">> },
       { <<"!","=","=">>, <<"!","=">> },
       { <<"'","u","n","d","e","f","i","n","e","d","'">>, <<"'","u","n","d","e","f","i","n","e","d","\"">>, <<"\"","u","n","d","e","f","i","n","e","d","'">>, <<"\"","u","n","d","e","f","i","n","e","d","\"">> },
       { <<"&","&">> },
       { <<"_","_","D","E","V","_","_">> } >>,
     \* /if\s*\(\s*__DEV__\s*\)\s*\{?\s*console\./
     << { <<"i","f">> },
       { <<"(">> },
       { <<"_","_","D","E","V","_","_">> },
       { <<")">> },
       { <<"{">>, << >> },
       { <<"c","o","n","s","o","l","e",".">> } >>,
     \* /Constants\.manifest\.?packagerOpts\.?dev/
     << { <<"C","o","n","s","t","a","n","t","s",".","m","a","n","i","f","e","s","t",".","p","a","c","k","a","g","e","r","O","p","t","s",".","d","e","v">>, <<"C","o","n","s","t","a","n","t","s",".","m","a","n","i","f","e","s","t","p","a","c","k","a","g","e","r","O","p","t","s",".","d","e","v">>, <<"C","o","n","s","t","a","n","t","s",".","m","a","n","i","f","e","s","t",".","p","a","c","k","a","g","e","r","O","p","t","s","d","e","v">>, <<"C","o","n","s","t","a","n","t","s",".","m","a","n","i","f","e","s","t","p","a","c","k","a","g","e","r","O","p","t","s","d","e","v">> } >>,
     \* /WEBPACK_DEV/
     << { <<"W","E","B","P","A","C","K","_","D","E","V">> } >> >>

\* /expo-constants.*development/, /webpack_require.*development/
DebugDotStarPatterns(line) ==
  \/ DotStar(line, Occurrences(line, <<"e","x","p","o","-","c","o","n","s","t","a","n","t","s">>), 14,
             Occurrences(line,
                         <<"d","e","v","e","l","o","p","m","e","n","t">>))
  \/ DotStar(line, Occurrences(line, <<"w","e","b","p","a","c","k","_","r","e","q","u","i","r","e">>), 15,
             Occurrences(line,
                         <<"d","e","v","e","l","o","p","m","e","n","t">>))

\* debugImportPatterns: require\(['"].*\.debug['"]\), require\(['"].*\/debug['"]\),
\* import.*from\s+['"].*\.debug['"], import.*from\s+['"].*\/debug['"]
debugImportPatterns(text) ==
  LET Closing(w) == { w \o << "'" >>, w \o << "\"" >> }
      OccAny(lits) == UNION { Occurrences(text, lit) : lit \in lits }
      Tails == { <<".","d","e","b","u","g">>, <<"/","d","e","b","u","g">> }
  IN  \/ \E tail \in Tails :
           DotStar(text,
                   OccAny({ <<"r","e","q","u","i","r","e","(","'">>,
                            <<"r","e","q","u","i","r","e","(","\"">> }),
                   9,
                   OccAny({ t \o << ")" >> : t \in Closing(tail) }))
      \/ \E tail \in Tails :
           \E i \in Occurrences(text, <<"i","m","p","o","r","t">>),
              j \in Occurrences(text, <<"f","r","o","m">>) :
             /\ j >= i + 6
             /\ \A k \in (i + 7)..j : text[k] # "\n"
             /\ \E q \in (j + 6)..Len(text) :
                  /\ \A k \in (j + 5)..(q - 1) : text[k] \in Whitespace
                  /\ text[q] \in { "'", "\"" }
                  /\ \E m \in OccAny(Closing(tail)) :
                       /\ m >= q
                       /\ \A k \in (q + 1)..m : text[k] # "\n"

\* the text holds a line that a pattern of debugPatterns matches, or
\* matches a pattern of debugImportPatterns
DebugPatternMatches(text) ==
  \/ \E p \in DOMAIN debugPatterns : Spaced(text, debugPatterns[p])
  \/ DebugDotStarPatterns(text)
  \/ debugImportPatterns(text)

\* the lines of the model that hold a development guard; no pattern
\* matches across the lines of the model
GuardKinds == { kind \in DOMAIN TextOf : DebugPatternMatches(TextOf[kind]) }

\* a line that one of debugPatterns / debugImportPatterns matches
MatchesDebugPattern(line) == line \in GuardKinds

isInDebugContext(content, snippet, filePath) ==
  LET codeToAnalyze == IF snippet # NoSnippet THEN content \o snippet ELSE content
  IN  \/ IsDebugPath(filePath)
      \/ \E k \in DOMAIN codeToAnalyze : MatchesDebugPattern(codeToAnalyze[k])

(***************************************************************************)
(* utils/sensitiveDataPatterns.ts and the classifiers of stringUtils.ts.   *)
(* A regular expression anchored at both ends is the predicate it decides. *)
(***************************************************************************)
Lower   == { "a","b","c","d","e","f","g","h","i","j","k","l","m",
             "n","o","p","q","r","s","t","u","v","w","x","y","z" }
Upper   == DOMAIN LowerOf
Letters == Lower \cup Upper
Digits  == { "0","1","2","3","4","5","6","7","8","9" }
Alnum   == Letters \cup Digits
\* [a-fA-F0-9]
HexChars == Digits \cup { "a","b","c","d","e","f", "A","B","C","D","E","F" }

AllIn(s, class) == \A k \in DOMAIN s : s[k] \in class

\* /\d{3,}/ and /[0-9]{3,}/
HasThreeDigits(s) ==
  \E k \in 1..(Len(s) - 2) : s[k] \in Digits /\ s[k + 1] \in Digits /\ s[k + 2] \in Digits

\* IDENTIFIER_PATTERNS.KEBAB_CASE: /^[a-z][a-z0-9]*(-[a-z0-9]+)+$/
KEBAB_CASE(s) ==
  /\ s # << >>
  /\ s[1] \in Lower
  /\ AllIn(s, Lower \cup Digits \cup { "-" })
  /\ \E k \in DOMAIN s : s[k] = "-"
  /\ \A k \in DOMAIN s : s[k] = "-" => (k < Len(s) /\ s[k + 1] # "-")

\* IDENTIFIER_PATTERNS.DOT_NOTATION:
\* /^[a-zA-Z][a-zA-Z0-9]*(\.[a-zA-Z][a-zA-Z0-9]*)+$/
DOT_NOTATION(s) ==
  /\ s # << >>
  /\ s[1] \in Letters
  /\ AllIn(s, Alnum \cup { "." })
  /\ \E k \in DOMAIN s : s[k] = "."
  /\ \A k \in DOMAIN s : s[k] = "." => (k < Len(s) /\ s[k + 1] \in Letters)

\* IDENTIFIER_PATTERNS.COLON_SEPARATED: /^[a-z]+:[a-z]+$/
COLON_SEPARATED(s) ==
  \E k \in 2..(Len(s) - 1) :
    /\ s[k] = ":"
    /\ AllIn(SubSeq(s, 1, k - 1), Lower)
    /\ AllIn(SubSeq(s, k + 1, Len(s)), Lower)

\* IDENTIFIER_PATTERNS.SIMPLE_WORDS: /^[a-z][a-z\s]+$/i
SIMPLE_WORDS(s) ==
  /\ Len(s) >= 2
  /\ s[1] \in Letters
  /\ AllIn(Tail(s), Letters \cup Whitespace)

\* IDENTIFIER_PATTERNS.CAMEL_SNAKE_CASE: /^[a-z][a-z0-9_]*$/i
CAMEL_SNAKE_CASE(s) ==
  /\ s # << >>
  /\ s[1] \in Letters
  /\ AllIn(s, Alnum \cup { "_" })

\* IDENTIFIER_PATTERNS.CONSTANT_CASE: /^[A-Z][A-Z_]*$/
CONSTANT_CASE(s) ==
  /\ s # << >>
  /\ s[1] \in Upper
  /\ AllIn(s, Upper \cup { "_" })

isLikelyIdentifier(value) ==
  \/ Len(value) < 4
  \/ KEBAB_CASE(value)
  \/ DOT_NOTATION(value)
  \/ COLON_SEPARATED(value)
  \/ SIMPLE_WORDS(value)
  \/ CAMEL_SNAKE_CASE(value) /\ ~HasThreeDigits(value)
  \/ CONSTANT_CASE(value) /\ ~HasThreeDigits(value)

\* SECRET_PATTERNS.JWT: /^eyJ[A-Za-z0-9_-]+\.[A-Za-z0-9_-]+\.[A-Za-z0-9_-]+$/
JWT(s) ==
  /\ startsWith(s, <<"e","y","J">>)
  /\ AllIn(s, Alnum \cup { "_", "-", "." })
  /\ \E d1, d2 \in DOMAIN s :
       /\ 4 < d1 /\ d1 + 1 < d2 /\ d2 < Len(s)
       /\ \A k \in DOMAIN s : s[k] = "." <=> k \in { d1, d2 }

\* SECRET_PATTERNS.AWS_ACCESS_KEY: /^AKIA[0-9A-Z]{16}$/
AWS_ACCESS_KEY(s) ==
  /\ Len(s) = 20
  /\ startsWith(s, <<"A","K","I","A">>)
  /\ AllIn(SubSeq(s, 5, 20), Digits \cup Upper)

\* SECRET_PATTERNS.AWS_SECRET_KEY: /^[A-Za-z0-9/+=]{40}$/
AWS_SECRET_KEY(s) ==
  /\ Len(s) = 40
  /\ AllIn(s, Alnum \cup { "/", "+", "=" })

\* SECRET_PATTERNS.STRIPE_KEY: /^sk_(test|live)_[A-Za-z0-9]{24,}$/
STRIPE_KEY(s) ==
  /\ \/ startsWith(s, <<"s","k","_","t","e","s","t","_">>)
     \/ startsWith(s, <<"s","k","_","l","i","v","e","_">>)
  /\ Len(s) >= 8 + 24
  /\ AllIn(SubSeq(s, 9, Len(s)), Alnum)

\* SECRET_PATTERNS.GITHUB_TOKEN: /^gh[pousr]_[A-Za-z0-9]{36,}$/
GITHUB_TOKEN(s) ==
  /\ Len(s) >= 4 + 36
  /\ s[1] = "g" /\ s[2] = "h" /\ s[3] \in { "p", "o", "u", "s", "r" } /\ s[4] = "_"
  /\ AllIn(SubSeq(s, 5, Len(s)), Alnum)

\* SECRET_PATTERNS.GENERIC_TOKEN: /^[a-z]{2,}_[A-Za-z0-9_-]{20,}$/
GENERIC_TOKEN(s) ==
  \E k \in 3..Len(s) :
    /\ s[k] = "_"
    /\ AllIn(SubSeq(s, 1, k - 1), Lower)
    /\ Len(s) - k >= 20
    /\ AllIn(SubSeq(s, k + 1, Len(s)), Alnum \cup { "_", "-" })

\* SECRET_PATTERNS.GENERIC_API_KEY: /^[A-Za-z0-9]{32,}$/
GENERIC_API_KEY(s) == Len(s) >= 32 /\ AllIn(s, Alnum)

\* SECRET_PATTERNS.BASE64_SECRET: /^[A-Za-z0-9+/=_-]{40,}$/
BASE64_SECRET(s) == Len(s) >= 40 /\ AllIn(s, Alnum \cup { "+", "/", "=", "_", "-" })

\* SECRET_PATTERNS.HEX_SECRET: /^[a-fA-F0-9]{32,}$/
HEX_SECRET(s) == Len(s) >= 32 /\ AllIn(s, HexChars)

\* Math.log2(n) for n in 1..64, in millionths
Log2Micro ==
  << 0, 1000000, 1584963, 2000000, 2321928, 2584963, 2807355, 3000000,
     3169925, 3321928, 3459432, 3584963, 3700440, 3807355, 3906891, 4000000,
     4087463, 4169925, 4247928, 4321928, 4392317, 4459432, 4523562, 4584963,
     4643856, 4700440, 4754888, 4807355, 4857981, 4906891, 4954196, 5000000,
     5044394, 5087463, 5129283, 5169925, 5209453, 5247928, 5285402, 5321928,
     5357552, 5392317, 5426265, 5459432, 5491853, 5523562, 5554589, 5584963,
     5614710, 5643856, 5672425, 5700440, 5727920, 5754888, 5781360, 5807355,
     5832890, 5857981, 5882643, 5906891, 5930737, 5954196, 5977280, 6000000 >>

RECURSIVE SumOver(_, _)
SumOver(f, set) ==
  IF set = {} THEN 0
  ELSE LET x == CHOOSE x \in set : TRUE IN f[x] + SumOver(f, set \ { x })

\* calculateEntropy(str) * str.length, in millionths of a bit:
\* -sum p log2 p = log2 len - (1/len) sum count log2 count
EntropyTimesLength(str) ==
  LET chars == Range(str)
      count == [c \in chars |-> Cardinality({ k \in DOMAIN str : str[k] = c })]
  IN  Len(str) * Log2Micro[Len(str)]
        - SumOver([c \in chars |-> count[c] * Log2Micro[count[c]]], chars)

\* the commonPatterns of looksLikeSecret
MatchesCommonPattern(value) ==
  LET lower == toLowerCase(value)
  IN  \/ value # << >> /\ AllIn(value, Letters)
      \/ value # << >> /\ AllIn(value, Digits)
      \/ value # << >> /\ AllIn(value, HexChars)
      \/ Len(value) \in 1..10 /\ AllIn(value, Alnum)
      \/ \E w \in { <<"a","b","c">>, <<"x","y","z">>,
                    <<"t","e","s","t">>, <<"d","e","m","o">>,
                    <<"s","a","m","p","l","e">> } : startsWith(lower, w)
      \/ /\ Len(value) >= 4
         /\ IsWordChar(value[1])
         /\ \A k \in 2..4 : value[k] = value[1]
      \/ \E w \in { <<"0","1","2","3","4">>, <<"1","2","3","4","5">>,
                    <<"a","b","c","d","e">>, <<"q","w","e","r","t","y">> } :
            startsWith(lower, w)

commonNames ==
  { <<"c","h","a","r","a","c","t","e","r","s">>,
    <<"a","l","p","h","a","b","e","t">>,
    <<"d","i","g","i","t","s">>, <<"l","e","t","t","e","r","s">>,
    <<"c","h","a","r","s","e","t">>, <<"c","o","n","f","i","g">>,
    <<"o","p","t","i","o","n","s">>, <<"s","e","t","t","i","n","g","s">>,
    <<"c","o","n","s","t","a","n","t","s">>,
    <<"d","e","f","a","u","l","t","s">> }

\* looksLikeSecret without the identifier test
looksLikeSecretUnguarded(value) ==
  /\ ~MatchesCommonPattern(value)
  /\ ~(Len(value) < 20 /\ \E name \in commonNames : includes(toLowerCase(value), name))
  /\ \/ JWT(value)
     \/ AWS_ACCESS_KEY(value)
     \/ AWS_SECRET_KEY(value)
     \/ STRIPE_KEY(value)
     \/ GITHUB_TOKEN(value)
     \/ GENERIC_TOKEN(value)
     \/ /\ Len(value) >= 32
        /\ GENERIC_API_KEY(value)
        /\ EntropyTimesLength(value) > 4000000 * Len(value)
     \/ /\ Len(value) > 40
        /\ BASE64_SECRET(value)
        /\ EntropyTimesLength(value) > 4500000 * Len(value)
     \/ Len(value) >= 40 /\ HEX_SECRET(value)

looksLikeSecret(value) ==
  IF isLikelyIdentifier(value) THEN FALSE
  ELSE /\ ~MatchesCommonPattern(value)
       /\ ~(Len(value) < 20 /\ \E name \in commonNames : includes(toLowerCase(value), name))
       /\ \/ JWT(value)
          \/ AWS_ACCESS_KEY(value)
          \/ AWS_SECRET_KEY(value)
          \/ STRIPE_KEY(value)
          \/ GITHUB_TOKEN(value)
          \/ GENERIC_TOKEN(value)
          \/ /\ Len(value) >= 32
             /\ GENERIC_API_KEY(value)
             /\ EntropyTimesLength(value) > 4000000 * Len(value)
          \/ /\ Len(value) > 40
             /\ BASE64_SECRET(value)
             /\ EntropyTimesLength(value) > 4500000 * Len(value)
          \/ Len(value) >= 40 /\ HEX_SECRET(value)

(***************************************************************************)
(* core/astParser.ts                                                       *)
(***************************************************************************)
\* parseJSFile without the catch clause's success: false
parseJSFileNeverFails(source) == [success |-> TRUE]

\* parseJSFile: success unless @babel/parser throws
parseJSFile(source) ==
  [success |-> \A k \in DOMAIN source : source[k] # "syntaxErr"]

\* parseJsonSafe: the parsed value, or null
parseJsonSafe(content) ==
  IF \A k \in DOMAIN content : content[k] # "syntaxErr" THEN "object" ELSE "null"

(***************************************************************************)
(* fast-glob patterns, for the three shapes the repository uses:           *)
(*   **/dir/**   a directory segment named dir                             *)
(*   **/*suffix  a file name ending in suffix                              *)
(*   **/name     a file named name                                         *)
(* Matching is case sensitive (fast-glob's default).                       *)
(***************************************************************************)
GlobAny == <<"*","*","/">>

GlobMatch(glob, path) ==
  IF startsWith(glob, GlobAny) /\ endsWith(glob, <<"/","*","*">>) /\ Len(glob) > 6
    THEN LET dir == SubSeq(glob, 4, Len(glob) - 3)
         IN  \/ startsWith(path, dir \o <<"/">>)
             \/ includes(path, <<"/">> \o dir \o <<"/">>)
  ELSE IF startsWith(glob, GlobAny \o <<"*">>)
    THEN endsWith(path, SubSeq(glob, 5, Len(glob)))
  ELSE IF startsWith(glob, GlobAny)
    THEN LET name == SubSeq(glob, 4, Len(glob))
         IN  path = name \/ endsWith(path, <<"/">> \o name)
  ELSE path = glob

(***************************************************************************)
(* core/fileWalker.ts                                                      *)
(***************************************************************************)
WalkPatterns ==
  [js    |-> << GlobAny \o <<"*">> \o ExtJs, GlobAny \o <<"*">> \o ExtJsx,
                GlobAny \o <<"*">> \o ExtTs, GlobAny \o <<"*">> \o ExtTsx >>,
   json  |-> << GlobAny \o <<"a","p","p",".","j","s","o","n">>,
                GlobAny \o <<"a","p","p",".","c","o","n","f","i","g",".","j","s","o","n">>,
                GlobAny \o PackageJson >>,
   xml   |-> << GlobAny \o <<"A","n","d","r","o","i","d","M","a","n","i","f","e","s","t",".","x","m","l">> >>,
   plist |-> << GlobAny \o <<"I","n","f","o",".","p","l","i","s","t">> >>]

\* the ignore globs of walkProjectFiles
WalkIgnore ==
  << GlobAny \o <<"n","o","d","e","_","m","o","d","u","l","e","s","/","*","*">>,
     GlobAny \o <<"d","i","s","t","/","*","*">>,
     GlobAny \o <<"b","u","i","l","d","/","*","*">>,
     GlobAny \o <<".","e","x","p","o","/","*","*">>,
     GlobAny \o <<"a","n","d","r","o","i","d","/","b","u","i","l","d","/","*","*">>,
     GlobAny \o <<"i","o","s","/","b","u","i","l","d","/","*","*">>,
     GlobAny \o <<".","g","i","t","/","*","*">>,
     GlobAny \o <<"c","o","v","e","r","a","g","e","/","*","*">>,
     GlobAny \o <<"*",".","t","e","s","t",".","j","s">>,
     GlobAny \o <<"*",".","t","e","s","t",".","t","s">>,
     GlobAny \o <<"*",".","t","e","s","t",".","j","s","x">>,
     GlobAny \o <<"*",".","t","e","s","t",".","t","s","x">>,
     GlobAny \o <<"*",".","s","p","e","c",".","j","s">>,
     GlobAny \o <<"*",".","s","p","e","c",".","t","s">>,
     GlobAny \o <<"*",".","s","p","e","c",".","j","s","x">>,
     GlobAny \o <<"*",".","s","p","e","c",".","t","s","x">>,
     GlobAny \o <<"_","_","t","e","s","t","s","_","_","/","*","*">>,
     GlobAny \o <<"_","_","m","o","c","k","s","_","_","/","*","*">>,
     GlobAny \o <<"e","2","e","/","*","*">>,
     GlobAny \o <<"t","e","s","t","s","/","*","*">>,
     GlobAny \o <<"t","e","s","t","/","*","*">>,
     GlobAny \o <<"*",".","e","2","e",".","j","s">>,
     GlobAny \o <<"*",".","e","2","e",".","t","s">> >>

MatchesAny(globs, path) == \E g \in DOMAIN globs : GlobMatch(globs[g], path)

\* fg(patterns, { ignore }) over the files of the tree, in listing order
fg(patterns, ignore, tree) ==
  SelectSeq(tree, LAMBDA p : MatchesAny(patterns, p) /\ ~MatchesAny(ignore, p))

walkProjectFiles(tree) ==
  [jsFiles    |-> fg(WalkPatterns.js, WalkIgnore, tree),
   jsonFiles  |-> fg(WalkPatterns.json, WalkIgnore, tree),
   xmlFiles   |-> fg(WalkPatterns.xml, WalkIgnore, tree),
   plistFiles |-> fg(WalkPatterns.plist, WalkIgnore, tree)]

(***************************************************************************)
(* The rules of the model: the two rules of secretsRules and the two rules *)
(* of npmVulnerabilityRules, with the ids, severities and file types their *)
(* sources declare.                                                        *)
(***************************************************************************)
JsTypes == << ExtJs, ExtJsx, ExtTs, ExtTsx >>

apiKeyDetectionRule ==
  [id |-> "API_KEY_EXPOSED", severity |-> "HIGH",
   fileTypes |-> JsTypes \o << ExtJson, ExtEnv >>]

envFileCommittedRule ==
  [id |-> "ENV_FILE_COMMITTED", severity |-> "HIGH",
   fileTypes |-> << ExtEnv, ExtEnvLocal, ExtEnvProduction >>]

packageJsonVulnerabilityRule ==
  [id |-> "NPM_VULNERABLE_DEPENDENCY", severity |-> "HIGH",
   fileTypes |-> << PackageJson >>]

deprecatedPackagesRule ==
  [id |-> "DEPRECATED_NPM_PACKAGE", severity |-> "MEDIUM",
   fileTypes |-> << PackageJson >>]

weakTlsConfigurationRule ==
  [id |-> "WEAK_TLS_CONFIGURATION", severity |-> "MEDIUM", fileTypes |-> JsTypes]

insecureRandomRule ==
  [id |-> "INSECURE_RANDOM", severity |-> "HIGH", fileTypes |-> JsTypes]

hardcodedEncryptionKeyRule ==
  [id |-> "HARDCODED_ENCRYPTION_KEY", severity |-> "HIGH", fileTypes |-> JsTypes]

debugEndpointsRule ==
  [id |-> "DEBUG_ENDPOINTS_EXPOSED", severity |-> "MEDIUM", fileTypes |-> JsTypes]

androidCleartextEnabledRule ==
  [id |-> "ANDROID_CLEARTEXT_ENABLED", severity |-> "HIGH", fileTypes |-> << ExtXml >>]

iosAtsDisabledRule ==
  [id |-> "IOS_ATS_DISABLED", severity |-> "HIGH", fileTypes |-> << ExtPlist >>]

\* of networkRules, manifestRules, authenticationRules and cryptoRules, the
\* rules the properties name
RuleGroups ==
  [secretsRules |-> << apiKeyDetectionRule, envFileCommittedRule >>,
   npmVulnerabilityRules |-> << packageJsonVulnerabilityRule, deprecatedPackagesRule >>,
   networkRules |-> << weakTlsConfigurationRule >>,
   manifestRules |-> << androidCleartextEnabledRule, iosAtsDisabledRule >>,
   authenticationRules |-> << insecureRandomRule >>,
   cryptoRules |-> << hardcodedEncryptionKeyRule >>,
   debugRules |-> << debugEndpointsRule >>]

\* the groups a caller of the engine registers in any order
GroupNames == { "secretsRules", "npmVulnerabilityRules" }

\* the line numbers (1-based) of the lines of a kind, in file order
LinesOf(lines, kind) ==
  SelectSeq([k \in 1..Len(lines) |-> k], LAMBDA k : lines[k] = kind)

\* one finding per matched line, anchored at the line, with its snippet
FindingsAt(ctx, ruleId, severity, lineNumbers) ==
  [n \in 1..Len(lineNumbers) |->
     [ruleId   |-> ruleId,
      severity |-> severity,
      filePath |-> ctx.filePath,
      line     |-> Some(lineNumbers[n]),
      snippet  |-> extractSnippet(ctx.fileContent.lines, lineNumbers[n])]]

\* apiKeyDetectionRule.apply: raw text, skipped for test and mock paths
apiKeyDetectionApply(ctx) ==
  LET filePath == toLowerCase(ctx.filePath)
  IN  IF \/ includes(filePath, <<"n","o","d","e","_","m","o","d","u","l","e","s">>)
         \/ includes(filePath, <<".","t","e","s","t",".">>)
         \/ includes(filePath, <<".","s","p","e","c",".">>)
         \/ includes(filePath, <<"m","o","c","k">>)
        THEN << >>
        ELSE FindingsAt(ctx, "API_KEY_EXPOSED", "HIGH",
                        LinesOf(ctx.fileContent.lines, "awsKey"))

\* envFileCommittedRule.apply: one file-level finding at line 1, no snippet
envFileCommittedApply(ctx) ==
  IF ~includes(ctx.filePath, ExtEnv) THEN << >>
  ELSE IF \E k \in DOMAIN ctx.fileContent.lines : ctx.fileContent.lines[k] = "awsKey"
    THEN << [ruleId   |-> "ENV_FILE_COMMITTED",
             severity |-> "HIGH",
             filePath |-> ctx.filePath,
             line     |-> Some(1),
             snippet  |-> NoSnippet] >>
    ELSE << >>

\* packageJsonVulnerabilityRule.apply, on its list of known vulnerable
\* packages (npm audit unavailable): needs the parsed JSON
packageJsonVulnerabilityApply(ctx) ==
  IF ~ctx.config \/ ~endsWith(ctx.filePath, PackageJson) THEN << >>
  ELSE FindingsAt(ctx, "NPM_VULNERABLE_DEPENDENCY", "HIGH",
                  LinesOf(ctx.fileContent.lines, "lodashOld"))

\* deprecatedPackagesRule.apply: needs the parsed JSON
deprecatedPackagesApply(ctx) ==
  IF ~ctx.config \/ ~endsWith(ctx.filePath, PackageJson) THEN << >>
  ELSE FindingsAt(ctx, "DEPRECATED_NPM_PACKAGE", "MEDIUM",
                  LinesOf(ctx.fileContent.lines, "requestDep"))

\* the characters of a file: the text of its lines, joined by newlines
RECURSIVE FileText(_)
FileText(lines) ==
  IF lines = << >> THEN << >>
  ELSE IF Len(lines) = 1 THEN TextOf[lines[1]]
  ELSE TextOf[lines[1]] \o << "\n" >> \o FileText(Tail(lines))

\* getLineNumber: content.substring(0, position).split("\n").length
getLineNumber(content, position) ==
  1 + Cardinality({ k \in 1..position : content[k] = "\n" })

\* one finding on a line, with the line alone as its snippet
\* (snippet: lines[i].trim())
FindingOnLine(ctx, ruleId, severity, n) ==
  [ruleId   |-> ruleId,
   severity |-> severity,
   filePath |-> ctx.filePath,
   line     |-> Some(n),
   snippet  |-> << ctx.fileContent.lines[n] >>]

WeakTlsVersions ==
  << <<"T","L","S","v","1",".","0">>,
     <<"T","L","S","v","1",".","1">>,
     <<"T","L","S","v","1","_","0">>,
     <<"T","L","S","v","1","_","1">> >>

weakCiphers ==
  << <<"R","C","4">>, <<"D","E","S">>, <<"M","D","5">>,
     <<"N","U","L","L">>, <<"E","X","P","O","R","T">>, <<"a","n","o","n">> >>

\* weakTlsConfigurationRule.apply: raw text only
weakTlsConfigurationApply(ctx) ==
  LET lines   == ctx.fileContent.lines
      content == FileText(lines)
      numbers == [k \in 1..Len(lines) |-> k]
      HasVersion(text) ==
        \E v \in DOMAIN WeakTlsVersions : includes(text, WeakTlsVersions[v])
      versionLines ==
        IF HasVersion(content)
          THEN SelectSeq(numbers, LAMBDA n : HasVersion(TextOf[lines[n]]))
          ELSE << >>
      agentLines ==
        IF /\ includes(content, <<"h","t","t","p","s","A","g","e","n","t">>)
           /\ \/ includes(content, <<"r","e","j","e","c","t","U","n","a","u","t","h","o","r","i","z","e","d">>)
              \/ includes(content, <<"s","e","c","u","r","e","P","r","o","t","o","c","o","l">>)
          THEN SelectSeq(numbers, LAMBDA n :
                 /\ includes(TextOf[lines[n]], <<"r","e","j","e","c","t","U","n","a","u","t","h","o","r","i","z","e","d">>)
                 /\ includes(TextOf[lines[n]], <<"f","a","l","s","e">>))
          ELSE << >>
      cipherFound ==
        /\ \E c \in DOMAIN weakCiphers : includes(content, weakCiphers[c])
        /\ includes(toLowerCase(content), <<"c","i","p","h","e","r">>)
  IN  [k \in 1..Len(versionLines) |->
         FindingOnLine(ctx, "WEAK_TLS_CONFIGURATION", "HIGH", versionLines[k])]
      \o [k \in 1..Len(agentLines) |->
            FindingOnLine(ctx, "WEAK_TLS_CONFIGURATION", "HIGH", agentLines[k])]
      \o (IF cipherFound
            THEN << [ruleId   |-> "WEAK_TLS_CONFIGURATION",
                     severity |-> "MEDIUM",
                     filePath |-> ctx.filePath,
                     line     |-> Some(1),
                     snippet  |-> NoSnippet] >>
            ELSE << >>)

\* the paths insecureRandomRule leaves alone
InsecureRandomSkipsPath(filePath) ==
  LET lowerPath == toLowerCase(filePath)
  IN  \/ \E m \in { <<"n","o","d","e","_","m","o","d","u","l","e","s">>,
                    <<"/","v","e","n","d","o","r","/">>, <<"/","a","s","s","e","t","s","/">>,
                    <<"/","m","o","d","u","l","e","s","/">>, <<"c","h","a","r","t">>,
                    <<"g","r","a","p","h">>, <<"v","i","s","u","a","l","i","z","a","t","i","o","n">>,
                    <<"/","l","i","b","/">>, <<".","m","i","n",".">> } :
            includes(lowerPath, m)
      \/ \E e \in { <<".","t","e","s","t",".","t","s">>,
                    <<".","t","e","s","t",".","t","s","x">>,
                    <<".","t","e","s","t",".","j","s">>,
                    <<".","t","e","s","t",".","j","s","x">> } :
            endsWith(lowerPath, e)

nonSecurityPatterns ==
  << <<"c","h","a","r","t">>,
     <<"g","r","a","p","h">>,
     <<"a","n","i","m","a","t","i","o","n">>,
     <<"c","o","l","o","r">>,
     <<"r","g","b">>,
     <<"p","o","s","i","t","i","o","n">>,
     <<"c","o","o","r","d","i","n","a","t","e">>,
     <<"m","a","r","k","e","r">>,
     <<"c","l","u","s","t","e","r">>,
     <<"p","l","o","t">>,
     <<"a","x","i","s">>,
     <<"s","h","u","f","f","l","e">>,
     <<"d","e","m","o">>,
     <<"e","x","a","m","p","l","e">>,
     <<"t","e","s","t">>,
     <<"m","o","c","k">>,
     <<"r","a","n","d","o","m","c","o","l","o","r">>,
     <<"r","a","n","d","o","m","p","o","s","i","t","i","o","n">>,
     <<"d","e","l","a","y">> >>

\* securityPatterns: each is first.*second, or first alone when second is
\* empty; firstWord / secondWord say that the part stands between \b
securityPatterns ==
  << [first |-> <<"g","e","n","e","r","a","t","e">>, firstWord |-> FALSE,
      second |-> <<"t","o","k","e","n">>, secondWord |-> FALSE],
     [first |-> <<"c","r","e","a","t","e">>, firstWord |-> FALSE,
      second |-> <<"t","o","k","e","n">>, secondWord |-> FALSE],
     [first |-> <<"t","o","k","e","n">>, firstWord |-> FALSE,
      second |-> <<"g","e","n","e","r","a","t">>, secondWord |-> FALSE],
     [first |-> <<"s","e","s","s","i","o","n">>, firstWord |-> FALSE,
      second |-> <<"i","d">>, secondWord |-> FALSE],
     [first |-> <<"a","c","c","e","s","s">>, firstWord |-> FALSE,
      second |-> <<"t","o","k","e","n">>, secondWord |-> FALSE],
     [first |-> <<"r","e","f","r","e","s","h">>, firstWord |-> FALSE,
      second |-> <<"t","o","k","e","n">>, secondWord |-> FALSE],
     [first |-> <<"a","p","i">>, firstWord |-> FALSE,
      second |-> <<"k","e","y">>, secondWord |-> FALSE],
     [first |-> <<"s","e","c","r","e","t">>, firstWord |-> FALSE,
      second |-> <<"k","e","y">>, secondWord |-> FALSE],
     [first |-> <<"e","n","c","r","y","p","t","i","o","n">>, firstWord |-> FALSE,
      second |-> <<"k","e","y">>, secondWord |-> FALSE],
     [first |-> <<"a","u","t","h">>, firstWord |-> FALSE,
      second |-> <<"t","o","k","e","n">>, secondWord |-> FALSE],
     [first |-> <<"c","s","r","f">>, firstWord |-> FALSE,
      second |-> <<"t","o","k","e","n">>, secondWord |-> FALSE],
     [first |-> <<"n","o","n","c","e">>, firstWord |-> TRUE,
      second |-> << >>, secondWord |-> FALSE],
     [first |-> <<"s","a","l","t">>, firstWord |-> TRUE,
      second |-> << >>, secondWord |-> FALSE],
     [first |-> <<"o","t","p">>, firstWord |-> TRUE,
      second |-> << >>, secondWord |-> FALSE],
     [first |-> <<"v","e","r","i","f","i","c","a","t","i","o","n">>, firstWord |-> FALSE,
      second |-> <<"c","o","d","e">>, secondWord |-> FALSE],
     [first |-> <<"r","e","s","e","t">>, firstWord |-> FALSE,
      second |-> <<"c","o","d","e">>, secondWord |-> FALSE],
     [first |-> <<"p","i","n">>, firstWord |-> TRUE,
      second |-> <<"g","e","n","e","r","a","t">>, secondWord |-> FALSE],
     [first |-> <<"g","e","n","e","r","a","t">>, firstWord |-> FALSE,
      second |-> <<"p","i","n">>, secondWord |-> TRUE],
     [first |-> <<"r","a","n","d","o","m">>, firstWord |-> FALSE,
      second |-> <<"p","a","s","s","w","o","r","d">>, secondWord |-> FALSE],
     [first |-> <<"p","a","s","s","w","o","r","d">>, firstWord |-> FALSE,
      second |-> <<"r","a","n","d","o","m">>, secondWord |-> FALSE],
     [first |-> <<"u","u","i","d">>, firstWord |-> TRUE,
      second |-> << >>, secondWord |-> FALSE],
     [first |-> <<"u","n","i","q","u","e">>, firstWord |-> FALSE,
      second |-> <<"i","d","e","n","t","i","f","i","e","r">>, secondWord |-> FALSE],
     [first |-> <<"s","e","c","u","r","i","t","y">>, firstWord |-> FALSE,
      second |-> <<"c","o","d","e">>, secondWord |-> FALSE] >>

\* pattern.test(text) for a pattern of securityPatterns
TestSecurityPattern(pattern, text) ==
  LET Occ(sub, word) ==
        IF word THEN WordOccurrences(text, sub) ELSE Occurrences(text, sub)
  IN  DotStar(text, Occ(pattern.first, pattern.firstWord), Len(pattern.first),
              Occ(pattern.second, pattern.secondWord))

\* surroundingCode taking the whole file
surroundingCodeWholeFile(content, start, end) == toLowerCase(content)

\* the text insecureRandomRule looks at around a call that starts at start
\* and ends at end
surroundingCode(content, start, end) ==
  toLowerCase(substring(content,
                        IF start - 200 > 0 THEN start - 200 ELSE 0,
                        IF end + 200 < Len(content) THEN end + 200 ELSE Len(content)))

\* the CallExpression nodes of the tree whose callee is Math.random, by
\* their start, in the order of the traversal
MathRandomCalls(content) ==
  LET call   == <<"M","a","t","h",".","r","a","n","d","o","m","(",")">>
      starts == Occurrences(content, call)
  IN  SelectSeq([k \in 1..Len(content) |-> k - 1], LAMBDA k : k \in starts)

\* the visitor of insecureRandomRule on one call: reported or not
InsecureRandomReports(content, start) ==
  LET text == surroundingCode(content, start, start + 13)
  IN  /\ ~\E p \in DOMAIN nonSecurityPatterns : includes(text, nonSecurityPatterns[p])
      /\ \E p \in DOMAIN securityPatterns :
           TestSecurityPattern(securityPatterns[p], text)

\* insecureRandomRule.apply: needs the tree
insecureRandomApply(ctx) ==
  IF ~ctx.ast \/ InsecureRandomSkipsPath(ctx.filePath) THEN << >>
  ELSE LET content  == FileText(ctx.fileContent.lines)
           reported == SelectSeq(MathRandomCalls(content),
                                 LAMBDA start : InsecureRandomReports(content, start))
       IN  FindingsAt(ctx, "INSECURE_RANDOM", "HIGH",
                      [k \in 1..Len(reported) |-> getLineNumber(content, reported[k])])

\* String.prototype.indexOf: 0-based, -1 when absent
indexOf(s, sub) ==
  IF Occurrences(s, sub) = {} THEN -1
  ELSE CHOOSE k \in Occurrences(s, sub) : \A j \in Occurrences(s, sub) : k <= j

\* the VariableDeclarator nodes of a line whose id is an Identifier and
\* whose init is a StringLiteral: the line const NAME = 'VALUE';
VariableDeclarators(text) ==
  LET eq == indexOf(text, <<" ","="," ","'">>)
  IN  IF /\ startsWith(text, <<"c","o","n","s","t"," ">>)
         /\ endsWith(text, <<"'",";">>)
         /\ eq > 6 /\ eq + 4 <= Len(text) - 2
         /\ AllIn(substring(text, 6, eq), Alnum \cup { "_" })
        THEN << [name  |-> substring(text, 6, eq),
                 value |-> substring(text, eq + 4, Len(text) - 2)] >>
        ELSE << >>

\* the ObjectProperty nodes of a line whose key is an Identifier and whose
\* value is a StringLiteral: { KEY: 'VALUE' } in the line
ObjectProperties(text) ==
  LET open  == indexOf(text, <<"{"," ">>)
      colon == indexOf(text, <<":"," ","'">>)
      close == indexOf(text, <<"'"," ","}">>)
  IN  IF /\ open # -1 /\ colon > open + 2 /\ close >= colon + 3
         /\ AllIn(substring(text, open + 2, colon), Alnum \cup { "_" })
        THEN << [name  |-> substring(text, open + 2, colon),
                 value |-> substring(text, colon + 3, close)] >>
        ELSE << >>

encryptionKeywords ==
  { <<"e","n","c","r","y","p","t","i","o","n","k","e","y">>,
    <<"e","n","c","r","y","p","t","i","o","n","_","k","e","y">>,
    <<"c","r","y","p","t","o","k","e","y">>, <<"c","r","y","p","t","o","_","k","e","y">>,
    <<"c","i","p","h","e","r","k","e","y">>, <<"c","i","p","h","e","r","_","k","e","y">> }

hasStrongEncryptionKeyword(lowerName) ==
  \E keyword \in encryptionKeywords : includes(lowerName, keyword)

\* ReportsDeclarator without the identifier test
ReportsDeclaratorOfAnyShape(varName, value) ==
  /\ \/ hasStrongEncryptionKeyword(toLowerCase(varName))
     \/ endsWith(toLowerCase(varName), <<"i","v">>)
     \/ endsWith(toLowerCase(varName), <<"s","a","l","t">>)
  /\ looksLikeSecret(value) \/ Len(value) > 20

\* the VariableDeclarator visitor of hardcodedEncryptionKeyRule: reported or
\* not
ReportsDeclarator(varName, value) ==
  LET lowerVarName == toLowerCase(varName)
      isIvOrSalt ==
        \/ lowerVarName = <<"i","v">> \/ lowerVarName = <<"s","a","l","t">>
        \/ endsWith(lowerVarName, <<"i","v">>)
        \/ endsWith(lowerVarName, <<"s","a","l","t">>)
  IN  /\ hasStrongEncryptionKeyword(lowerVarName) \/ isIvOrSalt
      /\ ~isLikelyIdentifier(value)
      /\ looksLikeSecret(value) \/ Len(value) > 20

\* the ObjectProperty visitor of hardcodedEncryptionKeyRule: reported or not
ReportsProperty(keyName, value) ==
  LET lowerKeyName == toLowerCase(keyName)
      isIvOrSalt ==
        lowerKeyName = <<"i","v">> \/ lowerKeyName = <<"s","a","l","t">>
  IN  /\ ~isLikelyIdentifier(value)
      /\ hasStrongEncryptionKeyword(lowerKeyName) \/ isIvOrSalt
      /\ looksLikeSecret(value) \/ Len(value) > 20

\* hardcodedEncryptionKeyRule.apply: needs the tree; the nodes are visited
\* in the order of the text, a declarator before the properties of its
\* initialiser
hardcodedEncryptionKeyApply(ctx) ==
  IF ~ctx.ast THEN << >>
  ELSE LET lines == ctx.fileContent.lines
           LineReports(n) ==
             LET text == TextOf[lines[n]]
                 declarators == VariableDeclarators(text)
                 properties  == ObjectProperties(text)
             IN  [k \in 1..Len(SelectSeq(declarators,
                                LAMBDA d : ReportsDeclarator(d.name, d.value))) |-> n]
                 \o [k \in 1..Len(SelectSeq(properties,
                                LAMBDA d : ReportsProperty(d.name, d.value))) |-> n]
       IN  FindingsAt(ctx, "HARDCODED_ENCRYPTION_KEY", "HIGH",
                      Flatten([n \in 1..Len(lines) |-> LineReports(n)]))

\* a finding of a file, without line and snippet
FileLevelFinding(ctx, ruleId, severity) ==
  [ruleId   |-> ruleId,
   severity |-> severity,
   filePath |-> ctx.filePath,
   line     |-> Undefined,
   snippet  |-> NoSnippet]

UsesCleartextTrue ==
  <<"a","n","d","r","o","i","d",":","u","s","e","s","C","l","e","a","r","t",
    "e","x","t","T","r","a","f","f","i","c","=","\"","t","r","u","e","\"">>

\* androidCleartextEnabledApply with one finding for each occurrence of the
\* attribute
androidCleartextEnabledApplyPerOccurrence(ctx) ==
  IF ~ctx.xmlContent \/ ~includes(ctx.filePath, <<"A","n","d","r","o","i","d","M","a","n","i","f","e","s","t">>)
    THEN << >>
    ELSE [n \in 1..Cardinality(Occurrences(FileText(ctx.fileContent.lines),
                                            UsesCleartextTrue)) |->
            FileLevelFinding(ctx, "ANDROID_CLEARTEXT_ENABLED", "HIGH")]

\* androidCleartextEnabledRule.apply: one finding of the file when the
\* manifest holds the attribute
androidCleartextEnabledApply(ctx) ==
  IF ~ctx.xmlContent \/ ~includes(ctx.filePath, <<"A","n","d","r","o","i","d","M","a","n","i","f","e","s","t">>)
    THEN << >>
  ELSE IF includes(FileText(ctx.fileContent.lines), UsesCleartextTrue)
    THEN << FileLevelFinding(ctx, "ANDROID_CLEARTEXT_ENABLED", "HIGH") >>
    ELSE << >>

\* atsPattern.test: the key NSAppTransportSecurity, white space, <dict>,
\* any text, the key NSAllowsArbitraryLoads, white space, <true/>
atsPattern(text) ==
  LET atsKey    == TextOf.atsKey
      dict      == <<"<","d","i","c","t",">">>
      allowsKey == <<"<","k","e","y",">","N","S","A","l","l","o","w","s","A","r","b","i","t","r","a","r","y","L","o","a","d","s","<","/","k","e","y",">">>
      true      == TextOf.trueTag
      Spaces(from, to) == \A k \in (from + 1)..to : text[k] \in Whitespace
  IN  \E i \in Occurrences(text, atsKey), j \in Occurrences(text, dict) :
        /\ j >= i + Len(atsKey)
        /\ Spaces(i + Len(atsKey), j)
        /\ \E m \in Occurrences(text, allowsKey), t \in Occurrences(text, true) :
             /\ m >= j + Len(dict)
             /\ t >= m + Len(allowsKey)
             /\ Spaces(m + Len(allowsKey), t)

\* iosAtsDisabledRule.apply: one finding of the file when Info.plist
\* disables App Transport Security
iosAtsDisabledApply(ctx) ==
  IF ~ctx.plistContent \/ ~includes(ctx.filePath, <<"I","n","f","o",".","p","l","i","s","t">>)
    THEN << >>
  ELSE IF atsPattern(FileText(ctx.fileContent.lines))
    THEN << FileLevelFinding(ctx, "IOS_ATS_DISABLED", "HIGH") >>
    ELSE << >>

(***************************************************************************)
(* debugEndpointsRule.  Its regular expressions are created once per call  *)
(* of apply with the flags g and i, and tested on every string literal of  *)
(* the file: each of them keeps its lastIndex from one literal to the      *)
(* next.  A pattern is the set of the (lower-case) texts it matches, all   *)
(* of one length.                                                          *)
(***************************************************************************)
debugEndpoints ==
  << { <<"/","d","e","b","u","g","/">> },
     { <<"/","a","p","i","/","d","e","b","u","g">> },
     { <<"/","a","d","m","i","n","/","d","e","b","u","g">> },
     { <<"/","_","_","d","e","b","u","g">> } >>

localPatterns ==
  << { <<"l","o","c","a","l","h","o","s","t">> },
     { <<"1","2","7",".","0",".","0",".","1">> },
     { <<"1","9","2",".","1","6","8",".">> },
     { <<"1","0",".","0",".">> },
     \* 172\.(1[6-9]|2[0-9]|3[0-1])\.
     { <<"1","7","2",".">> \o << d[1], d[2], "." >> :
         d \in ({"1"} \X {"6","7","8","9"})
               \cup ({"2"} \X {"0","1","2","3","4","5","6","7","8","9"})
               \cup ({"3"} \X {"0","1"}) } >>

\* RegExp.prototype.test of a pattern with the flags g and i: the search
\* starts at lastIndex; a match leaves lastIndex behind the match, a failure
\* resets it to 0
RegExpTest(pattern, value, lastIndex) ==
  LET v      == toLowerCase(value)
      starts == { k \in UNION { Occurrences(v, a) : a \in pattern } :
                    k >= lastIndex }
  IN  IF lastIndex > Len(v) \/ starts = {}
        THEN [found |-> FALSE, lastIndex |-> 0]
        ELSE LET first == CHOOSE k \in starts : \A j \in starts : k <= j
                 a     == CHOOSE b \in pattern : first \in Occurrences(v, b)
             IN  [found |-> TRUE, lastIndex |-> first + Len(a)]

\* patterns.some(pattern => pattern.test(value)), and the loop over the
\* patterns that breaks at the first match: the patterns are tested in order
\* up to the first that matches
RECURSIVE TestInOrder(_, _, _, _)
TestInOrder(patterns, value, lastIndexes, k) ==
  IF k > Len(patterns)
    THEN [found |-> FALSE, lastIndexes |-> lastIndexes]
    ELSE LET r    == RegExpTest(patterns[k], value, lastIndexes[k])
             next == [lastIndexes EXCEPT ![k] = r.lastIndex]
         IN  IF r.found
               THEN [found |-> TRUE, lastIndexes |-> next]
               ELSE TestInOrder(patterns, value, next, k + 1)

\* the StringLiteral nodes of a file in the order traverse visits them:
\* start is the offset of the opening quote, end the offset behind the
\* closing quote (the lines of the model quote with ' only)
StringLiteralNodes(content) ==
  LET quotes   == Occurrences(content, << "'" >>)
      quote(n) == CHOOSE q \in quotes :
                    Cardinality({ p \in quotes : p < q }) = n - 1
  IN  [n \in 1..(Cardinality(quotes) \div 2) |->
         [start |-> quote(2 * n - 1),
          end   |-> quote(2 * n) + 1,
          value |-> substring(content, quote(2 * n - 1) + 1, quote(2 * n))]]

\* /__DEV__|process\.env\.NODE_ENV/.test(surroundingCode), on the 150
\* characters before the node and the 150 behind it
hasDevCheck(content, node) ==
  LET from == IF node.start - 150 > 0 THEN node.start - 150 ELSE 0
      to   == IF node.end + 150 < Len(content) THEN node.end + 150 ELSE Len(content)
      around == substring(content, from, to)
  IN  \/ includes(around, <<"_","_","D","E","V","_","_">>)
      \/ includes(around,
                  <<"p","r","o","c","e","s","s",".","e","n","v",".","N","O","D",
                    "E","_","E","N","V">>)

\* the StringLiteral visitor of debugEndpointsRule on the nodes from the
\* k-th on: regs holds the lastIndex of every pattern
RECURSIVE VisitStringLiterals(_, _, _, _, _)
VisitStringLiterals(ctx, nodes, k, regs, findings) ==
  IF k > Len(nodes) THEN findings
  ELSE
    LET node    == nodes[k]
        value   == node.value
        content == FileText(ctx.fileContent.lines)
    IN  IF ~(includes(value, <<":","/","/">>) \/ startsWith(value, <<"/">>))
          THEN VisitStringLiterals(ctx, nodes, k + 1, regs, findings)
        ELSE
          LET isLocal == TestInOrder(localPatterns, value, regs.local, 1)
          IN  IF isLocal.found
                THEN VisitStringLiterals(ctx, nodes, k + 1,
                       [regs EXCEPT !.local = isLocal.lastIndexes], findings)
              ELSE
                LET isDebug == TestInOrder(debugEndpoints, value, regs.debug, 1)
                    line    == getLineNumber(content, node.start)
                    after   == [local |-> isLocal.lastIndexes,
                                debug |-> isDebug.lastIndexes]
                IN  IF isDebug.found /\ ~hasDevCheck(content, node)
                      THEN VisitStringLiterals(ctx, nodes, k + 1, after,
                             Append(findings,
                               [ruleId   |-> "DEBUG_ENDPOINTS_EXPOSED",
                                severity |-> "HIGH",
                                filePath |-> ctx.filePath,
                                line     |-> Some(line),
                                snippet  |-> extractSnippet(ctx.fileContent.lines, line)]))
                      ELSE VisitStringLiterals(ctx, nodes, k + 1, after, findings)

\* debugEndpointsRule.apply: needs the AST
debugEndpointsApply(ctx) ==
  IF ~ctx.ast THEN << >>
  ELSE VisitStringLiterals(ctx,
         StringLiteralNodes(FileText(ctx.fileContent.lines)), 1,
         [local |-> [p \in DOMAIN localPatterns |-> 0],
          debug |-> [p \in DOMAIN debugEndpoints |-> 0]],
         << >>)

\* rule.apply(context): the promise rejects (threw) or resolves to findings
RuleApply(rule, ctx) ==
  IF rule.id \in ctx.fileContent.faulty
    THEN [threw |-> TRUE, findings |-> << >>]
    ELSE [threw |-> FALSE,
          findings |->
            CASE rule.id = "API_KEY_EXPOSED" -> apiKeyDetectionApply(ctx)
              [] rule.id = "ENV_FILE_COMMITTED" -> envFileCommittedApply(ctx)
              [] rule.id = "NPM_VULNERABLE_DEPENDENCY" ->
                   packageJsonVulnerabilityApply(ctx)
              [] rule.id = "DEPRECATED_NPM_PACKAGE" -> deprecatedPackagesApply(ctx)
              [] rule.id = "WEAK_TLS_CONFIGURATION" -> weakTlsConfigurationApply(ctx)
              [] rule.id = "INSECURE_RANDOM" -> insecureRandomApply(ctx)
              [] rule.id = "HARDCODED_ENCRYPTION_KEY" ->
                   hardcodedEncryptionKeyApply(ctx)
              [] rule.id = "ANDROID_CLEARTEXT_ENABLED" ->
                   androidCleartextEnabledApply(ctx)
              [] rule.id = "IOS_ATS_DISABLED" -> iosAtsDisabledApply(ctx)
              [] rule.id = "DEBUG_ENDPOINTS_EXPOSED" -> debugEndpointsApply(ctx)]

(***************************************************************************)
(* core/ruleEngine.ts: the pure parts of RuleEngine.                       *)
(***************************************************************************)
\* getAllRules without the filter on the ignored ids
getAllRulesUnfiltered(groups, ignored) ==
  Flatten([g \in 1..Len(groups) |-> RuleGroups[groups[g]]])

\* getAllRules: the rules of the registered groups, minus the ignored ones
getAllRules(groups, ignored) ==
  SelectSeq(Flatten([g \in 1..Len(groups) |-> RuleGroups[groups[g]]]),
            LAMBDA rule : rule.id \notin ignored)

\* getApplicableRules comparing the declared types with getFileExtension
getApplicableRulesByExtension(groups, ignored, filePath) ==
  SelectSeq(getAllRules(groups, ignored),
            LAMBDA rule : \E t \in DOMAIN rule.fileTypes :
                             rule.fileTypes[t] = getFileExtension(filePath))

\* getApplicableRules giving no rule to a file that prepareContext builds no
\* representation for
getApplicableRulesOfParsedFiles(groups, ignored, filePath) ==
  IF getFileExtension(filePath) \in
       { ExtJs, ExtJsx, ExtTs, ExtTsx, ExtJson, ExtXml, ExtPlist }
    THEN SelectSeq(getAllRules(groups, ignored),
                   LAMBDA rule : \E t \in DOMAIN rule.fileTypes :
                                    endsWith(filePath, rule.fileTypes[t]))
    ELSE << >>

\* getApplicableRules: a declared file type is a suffix of the path
getApplicableRules(groups, ignored, filePath) ==
  SelectSeq(getAllRules(groups, ignored),
            LAMBDA rule : \E t \in DOMAIN rule.fileTypes :
                             endsWith(filePath, rule.fileTypes[t]))

\* prepareContext giving the content as XML and as property list to every
\* file
prepareContextOfAllText(filePath, fileContent) ==
  [filePath |-> filePath, fileContent |-> fileContent,
   ast |-> (\E t \in DOMAIN JsTypes : endsWith(filePath, JsTypes[t]))
             /\ parseJSFile(fileContent.lines).success,
   config |-> endsWith(filePath, ExtJson)
                /\ parseJsonSafe(fileContent.lines) # "null",
   xmlContent |-> TRUE, plistContent |-> TRUE]

\* prepareContext: the representation the extension calls for
prepareContext(filePath, fileContent) ==
  LET context == [filePath |-> filePath, fileContent |-> fileContent,
                  ast |-> FALSE, config |-> FALSE,
                  xmlContent |-> FALSE, plistContent |-> FALSE]
  IN  IF \E t \in DOMAIN JsTypes : endsWith(filePath, JsTypes[t])
        THEN [context EXCEPT !.ast = parseJSFile(fileContent.lines).success]
      ELSE IF endsWith(filePath, ExtJson)
        THEN [context EXCEPT !.config = parseJsonSafe(fileContent.lines) # "null"]
      ELSE IF endsWith(filePath, ExtXml)
        THEN [context EXCEPT !.xmlContent = TRUE]
      ELSE IF endsWith(filePath, ExtPlist)
        THEN [context EXCEPT !.plistContent = TRUE]
      ELSE context

\* enrichFindingsWithDebugContext looking for a guard in the snippet of the
\* finding only
enrichFindingsBySnippet(findings, fileContent) ==
  SelectSeq(findings,
            LAMBDA finding :
              ~isInDebugContext(finding.snippet, NoSnippet, finding.filePath))

\* enrichFindingsWithDebugContext: keep the findings outside debug context
enrichFindingsWithDebugContext(findings, fileContent) ==
  SelectSeq(findings,
            LAMBDA finding :
              ~isInDebugContext(fileContent.lines, finding.snippet, finding.filePath))

\* PushRuleFindings with the catch around the whole loop: a rejected rule
\* ends the loop and the findings of the file are lost
PushRuleFindingsLosesFile(findings, outcome) ==
  IF outcome.threw THEN << >> ELSE findings \o outcome.findings

\* the try/catch around rule.apply in scanFile: a rejected rule is skipped
PushRuleFindings(findings, outcome) ==
  IF outcome.threw THEN findings ELSE findings \o outcome.findings

\* PushFileFindings putting the findings of the file in front
UnshiftFileFindings(allFindings, findings) == findings \o allFindings

\* PushFileFindings keeping the findings of a file only while no earlier
\* file of the list had any
PushFileFindingsWhileEmpty(allFindings, findings) ==
  IF allFindings = << >> THEN findings ELSE allFindings

\* PushFileFindings leaving the result as it was
KeepAllFindings(allFindings, findings) == allFindings

\* allFindings.push(...findings) of runRulesOn*
PushFileFindings(allFindings, findings) == allFindings \o findings

\* skippedFiles: this.skippedFiles > 0 ? this.skippedFiles : undefined
SkippedField(skipped) == IF skipped > 0 THEN Some(skipped) ELSE Undefined

\* ExcludeFiles keeping every file
ExcludeNothing(excluded, filePaths) == filePaths

\* setExcludedPaths / the exclusion of the enumerated files
ExcludeFiles(excluded, filePaths) ==
  SelectSeq(filePaths, LAMBDA p : ~MatchesAny(excluded, p))

(***************************************************************************)
(* Inputs.                                                                 *)
(***************************************************************************)
\* file lists: no path twice (git diff --name-only, fast-glob)
FileLists ==
  UNION { { l \in [1..n -> Paths] : \A a, b \in 1..n : a # b => l[a] # l[b] } :
          n \in 0..MaxFiles }

\* project trees: the files under a root, in directory order
DirectoryOrder == << PathEnv, PathApp, PathPkg, PathTestPkg >>

Trees ==
  { SelectSeq(DirectoryOrder, LAMBDA p : p \in files) :
      files \in { fl \in SUBSET Paths : Cardinality(fl) <= MaxFiles } }

\* the ignoredRules arrays of a configuration
IgnoreLists == { << >>, << "API_KEY_EXPOSED", "NPM_VULNERABLE_DEPENDENCY" >> }

\* the exclude arrays of a configuration: none, or **/Test/** and **/*.ts
ExcludeLists ==
  { << >>,
    << GlobAny \o <<"T","e","s","t","/","*","*">>, GlobAny \o <<"*">> \o ExtTs >> }

(***************************************************************************)
(* State.                                                                  *)
(***************************************************************************)
VARIABLES
  ruleGroups,     \* RuleEngine.ruleGroups: the names of the registered groups
  ignoredRules,   \* RuleEngine.ignoredRules: a set of rule ids
  lastIgnore,     \* the argument of the most recent call of setIgnoredRules
  skippedFiles,   \* RuleEngine.skippedFiles
  excludedPaths,  \* the exclude globs given to the engine
  frame,          \* the activation of runRulesOnFiles / runRulesOnProject
  returned,       \* what the completed scans returned, oldest first
  fs,             \* the file system as far as the scans have read it
  cli,            \* the scan command of the CLI
  probe,          \* a call of a pure function of utils/ on its arguments
  suspended       \* an activation of runRulesOnFiles that awaits while the
                  \* activation in frame runs

vars == << ruleGroups, ignoredRules, lastIgnore, skippedFiles, excludedPaths,
           frame, returned, fs, cli, probe, suspended >>

NoContext == prepareContext(<< >>, Unknown)

\* pc: idle, walk (awaiting walkProjectFiles), read (awaiting
\* readFileContent), rule (awaiting rule.apply), resume (scanFile has
\* returned, runRulesOn* not yet resumed), done, failed (the promise rejected)
IdleFrame ==
  [pc |-> "idle", entry |-> "none", given |-> << >>, filePaths |-> << >>,
   i |-> 0, context |-> NoContext, applicableRules |-> << >>, r |-> 0,
   findings |-> << >>, allFindings |-> << >>, trace |-> << >>]

ScanRunning == frame.pc \in { "walk", "read", "rule", "resume" }

\* no classifier is being called
NoProbe == [base |-> << >>, value |-> << >>, node |-> "none", name |-> << >>,
            identifier |-> Undefined, secret |-> Undefined, reported |-> Undefined,
            currentFindings |-> << >>, previousFindings |-> << >>,
            comparison |-> Undefined]

Init ==
  /\ probe = NoProbe
  /\ ruleGroups = << >>
  /\ ignoredRules = {}
  /\ lastIgnore = << >>
  /\ skippedFiles = 0
  /\ excludedPaths = << >>
  /\ frame = IdleFrame
  /\ suspended = IdleFrame
  /\ returned = << >>
  /\ fs = [p \in AllPaths |-> Unknown]
  /\ cli = [pc |-> "none", exit |-> "none", result |-> Undefined]

(***************************************************************************)
(* Configuration of the engine by its caller, before the first scan (as    *)
(* the scan command does): each group is registered once, and the ignore   *)
(* set may be replaced any number of times, in any order.                  *)
(***************************************************************************)
registerRuleGroup(group) ==
  /\ cli.pc = "none"
  /\ frame.pc = "idle"
  /\ group \notin Range(ruleGroups)
  /\ ruleGroups' = Append(ruleGroups, group)
  /\ UNCHANGED << ignoredRules, lastIgnore, skippedFiles, excludedPaths, frame, returned, fs, cli, probe, suspended >>

setIgnoredRules(ids) ==
  /\ cli.pc = "none"
  /\ frame.pc = "idle"
  /\ ignoredRules' = Range(ids)
  /\ lastIgnore' = ids
  /\ UNCHANGED << ruleGroups, skippedFiles, excludedPaths, frame, returned, fs, cli, probe, suspended >>

(***************************************************************************)
(* A scan.                                                                 *)
(***************************************************************************)
\* ScanReturn counting as scanned the files whose read succeeded only
ScanReturnCountsReadFiles(f, skipped) ==
  [findings     |-> f.allFindings,
   scannedFiles |-> Len(f.filePaths) - skipped,
   filePaths    |-> f.filePaths,
   skippedFiles |-> SkippedField(skipped),
   given        |-> f.given,
   entry        |-> f.entry,
   ruleGroups   |-> ruleGroups',
   ignoredRules |-> ignoredRules',
   lastIgnore   |-> lastIgnore',
   excluded     |-> excludedPaths',
   trace        |-> f.trace]

\* the value runRulesOn* returns, with the inputs of the scan beside it
ScanReturn(f, skipped) ==
  [findings     |-> f.allFindings,
   scannedFiles |-> Len(f.filePaths),
   filePaths    |-> f.filePaths,
   skippedFiles |-> SkippedField(skipped),
   given        |-> f.given,
   entry        |-> f.entry,
   ruleGroups   |-> ruleGroups',
   ignoredRules |-> ignoredRules',
   lastIgnore   |-> lastIgnore',
   excluded     |-> excludedPaths',
   trace        |-> f.trace]

\* top of the for loop over filePaths: the next file's read is awaited, or
\* the loop is over and the result is returned
LoopHead(f, skipped) ==
  IF f.i < Len(f.filePaths)
    THEN /\ frame' = [f EXCEPT !.pc = "read"]
         /\ returned' = returned
    ELSE /\ frame' = [f EXCEPT !.pc = "done"]
         /\ returned' = Append(returned, ScanReturn(f, skipped))

\* CallRunRulesOnFiles without this.skippedFiles = 0
CallRunRulesOnFilesNoReset(filePaths) ==
  /\ skippedFiles' = skippedFiles
  /\ LoopHead([IdleFrame EXCEPT !.entry = "files", !.given = filePaths,
                                !.filePaths = ExcludeFiles(excludedPaths', filePaths)],
              skippedFiles)

\* runRulesOnFiles up to its first await
CallRunRulesOnFiles(filePaths) ==
  /\ skippedFiles' = 0
  /\ LoopHead([IdleFrame EXCEPT !.entry = "files", !.given = filePaths,
                                !.filePaths = ExcludeFiles(excludedPaths', filePaths)],
              0)

\* runRulesOnProject up to its first await
CallRunRulesOnProject ==
  /\ skippedFiles' = 0
  /\ frame' = [IdleFrame EXCEPT !.entry = "project", !.pc = "walk"]
  /\ returned' = returned

\* a later scan of the instance scans what the first one was given
Rescan(entry, given) ==
  returned # << >> => returned[1].entry = entry /\ returned[1].given = given

runRulesOnFiles(filePaths) ==
  /\ cli.pc = "none"
  /\ ~ScanRunning
  /\ Len(returned) < MaxScans
  /\ Rescan("files", filePaths)
  /\ UNCHANGED << ruleGroups, ignoredRules, lastIgnore, excludedPaths, fs, cli, probe, suspended >>
  /\ CallRunRulesOnFiles(filePaths)

runRulesOnProject ==
  /\ cli.pc = "none"
  /\ ~ScanRunning
  /\ Len(returned) < MaxScans
  /\ returned # << >> => returned[1].entry = "project"
  /\ UNCHANGED << ruleGroups, ignoredRules, lastIgnore, excludedPaths, fs, cli, probe, suspended >>
  /\ CallRunRulesOnProject

\* walkProjectFiles settles: the files of the tree by category, or an error
WalkSettles(tree, ok) ==
  /\ frame.pc = "walk"
  /\ returned # << >> /\ ok => returned[1].given = tree
  /\ UNCHANGED << ruleGroups, ignoredRules, lastIgnore, skippedFiles, excludedPaths, fs, cli, probe, suspended >>
  /\ IF ok
       THEN LET fileGroup == walkProjectFiles(tree)
                allFiles  == fileGroup.jsFiles \o fileGroup.jsonFiles
                               \o fileGroup.xmlFiles \o fileGroup.plistFiles
            IN  LoopHead([frame EXCEPT !.given = tree,
                                       !.filePaths = ExcludeFiles(excludedPaths, allFiles)],
                         skippedFiles)
       ELSE /\ frame' = [frame EXCEPT !.pc = "failed"]
            /\ returned' = returned

\* ReadFailed without this.skippedFiles++
ReadFailedUncounted(f, filePath, skipped) ==
  [frame |-> [f EXCEPT !.pc = "resume", !.findings = << >>,
                       !.trace = Append(@, << "readError", filePath >>)],
   skippedFiles |-> skipped]

\* ReadFailed without the catch clause: the rejection reaches the caller
ReadFailedPropagates(f, filePath, skipped) ==
  [frame |-> [f EXCEPT !.pc = "failed",
                       !.trace = Append(@, << "readError", filePath >>)],
   skippedFiles |-> skipped]

\* ReadFailed reading the file a second time after the first rejection
ReadFailedRetriesOnce(f, filePath, skipped) ==
  IF << "readError", filePath >> \in Range(f.trace)
    THEN [frame |-> [f EXCEPT !.pc = "resume", !.findings = << >>,
                              !.trace = Append(@, << "readError", filePath >>)],
          skippedFiles |-> skipped + 1]
    ELSE [frame |-> [f EXCEPT !.trace = Append(@, << "readError", filePath >>)],
          skippedFiles |-> skipped]

\* scanFile after readFileContent rejected: the catch clause counts the
\* file as skipped and returns no finding
ReadFailed(f, filePath, skipped) ==
  [frame |-> [f EXCEPT !.pc = "resume", !.findings = << >>,
                       !.trace = Append(@, << "readError", filePath >>)],
   skippedFiles |-> skipped + 1]

\* scanFile after readFileContent resolved: context, applicable rules, and
\* the first rule.apply awaited (or the return, when no rule applies)
ReadSucceeded(f, filePath, fileContent) ==
  LET context == prepareContext(filePath, fileContent)
      applicableRules == getApplicableRules(ruleGroups, ignoredRules, filePath)
      g == [f EXCEPT !.context = context, !.applicableRules = applicableRules,
                     !.trace = Append(@, << "read", filePath >>)]
  IN  IF applicableRules = << >>
        THEN [g EXCEPT !.pc = "resume",
                       !.findings = enrichFindingsWithDebugContext(<< >>, fileContent)]
        ELSE [g EXCEPT !.pc = "rule", !.r = 1, !.findings = << >>]

\* the read of the current file settles
ReadSettles(c) ==
  /\ frame.pc = "read"
  /\ LET filePath == frame.filePaths[frame.i + 1]
     IN  /\ c \in ContentsAt(filePath) \cup { ReadError }
         /\ fs[filePath] \in { Unknown, c }
         /\ fs' = [fs EXCEPT ![filePath] = c]
         /\ IF c = ReadError
              THEN LET caught == ReadFailed(frame, filePath, skippedFiles)
                   IN  /\ skippedFiles' = caught.skippedFiles
                       /\ frame' = caught.frame
              ELSE /\ skippedFiles' = skippedFiles
                   /\ frame' = ReadSucceeded(frame, filePath, c)
  /\ UNCHANGED << ruleGroups, ignoredRules, lastIgnore, excludedPaths, returned, cli, probe, suspended >>

\* the awaited rule.apply settles; the next rule is applied, or the
\* findings of the file are filtered and scanFile returns
RuleSettles ==
  /\ frame.pc = "rule"
  /\ LET rule     == frame.applicableRules[frame.r]
         outcome  == RuleApply(rule, frame.context)
         findings == PushRuleFindings(frame.findings, outcome)
         g == [frame EXCEPT
                 !.trace = Append(@, << IF outcome.threw THEN "threw" ELSE "applied",
                                        rule.id, frame.context.filePath >>)]
     IN  frame' =
           IF frame.r < Len(frame.applicableRules)
             THEN [g EXCEPT !.r = @ + 1, !.findings = findings]
             ELSE [g EXCEPT !.pc = "resume",
                            !.findings = enrichFindingsWithDebugContext(
                                           findings, frame.context.fileContent)]
  /\ UNCHANGED << ruleGroups, ignoredRules, lastIgnore, skippedFiles, excludedPaths,
                  returned, fs, cli, probe, suspended >>

\* runRulesOn* resumes after await this.scanFile(filePath)
ScanFileReturns ==
  /\ frame.pc = "resume"
  /\ UNCHANGED << ruleGroups, ignoredRules, lastIgnore, skippedFiles, excludedPaths, fs, cli, probe, suspended >>
  /\ LoopHead([frame EXCEPT !.allFindings = PushFileFindings(@, frame.findings),
                            !.i = @ + 1,
                            !.findings = << >>,
                            !.context = NoContext,
                            !.applicableRules = << >>,
                            !.r = 0],
              skippedFiles)

ScanStep ==
  \/ \E tree \in Trees, ok \in BOOLEAN : WalkSettles(tree, ok)
  \/ \E c \in Contents \cup { ReadError } : ReadSettles(c)
  \/ RuleSettles
  \/ ScanFileReturns

(***************************************************************************)
(* cli/index.ts: the scan command.                                         *)
(***************************************************************************)
\* registerAllRules, for the groups of the model, in the order of the source
AllRuleGroups == << "secretsRules", "npmVulnerabilityRules" >>

\* .rnsec.json: each of ignoredRules and exclude is absent or an array
Configs ==
  [ignoredRules : { Undefined } \cup { Some(l) : l \in IgnoreLists },
   exclude      : { Undefined } \cup { Some(l) : l \in ExcludeLists }]

\* HighSeverityCount counting the findings of every severity
AnySeverityCount(findings) == Len(findings)

\* result.findings.filter(f => f.severity === Severity.HIGH).length
HighSeverityCount(findings) ==
  Cardinality({ k \in DOMAIN findings : findings[k].severity = "HIGH" })

\* the action of `rnsec scan` from its start to the call of the engine:
\* a new engine, the configuration, registerAllRules, then the scan of the
\* changed files (changed = the list git reported, gitOk = git succeeded)
\* or of the project
CliScan(config, changedFiles, changed, gitOk) ==
  /\ ignoredRules' = IF config.ignoredRules # Undefined
                       THEN Range(config.ignoredRules[1]) ELSE {}
  /\ lastIgnore' = IF config.ignoredRules # Undefined
                     THEN config.ignoredRules[1] ELSE lastIgnore
  /\ excludedPaths' = IF config.exclude # Undefined
                        THEN config.exclude[1] ELSE << >>
  /\ ruleGroups' = AllRuleGroups
  /\ UNCHANGED << fs, probe, suspended >>
  /\ IF changedFiles /\ ~gitOk
       THEN /\ cli' = [cli EXCEPT !.pc = "exited", !.exit = "ERROR"]
            /\ UNCHANGED << frame, returned, skippedFiles >>
     ELSE IF changedFiles /\ changed = << >>
       THEN /\ cli' = [cli EXCEPT !.pc = "report",
                         !.result = Some([findings |-> << >>, scannedFiles |-> 0])]
            /\ UNCHANGED << frame, returned, skippedFiles >>
     ELSE IF changedFiles
       THEN /\ cli' = [cli EXCEPT !.pc = "scanning"]
            /\ CallRunRulesOnFiles(changed)
     ELSE /\ cli' = [cli EXCEPT !.pc = "scanning"]
          /\ CallRunRulesOnProject

\* `rnsec scan` is run, on a new engine; git diff --name-only lists the
\* changed files in path order
CliStart ==
  /\ cli.pc = "none"
  /\ frame.pc = "idle"
  /\ ruleGroups = << >> /\ ignoredRules = {} /\ excludedPaths = << >>
  /\ returned = << >>
  /\ \E config \in Configs, changedFiles \in BOOLEAN, changed \in Trees,
        gitOk \in BOOLEAN : CliScan(config, changedFiles, changed, gitOk)

\* the awaited scan settles: the ScanResult is assembled, or the catch
\* clause of the action exits with the error code
CliResult ==
  /\ cli.pc = "scanning"
  /\ frame.pc \in { "done", "failed" }
  /\ cli' = IF frame.pc = "done"
              THEN [cli EXCEPT !.pc = "report",
                      !.result = Some([findings |-> returned[Len(returned)].findings,
                                       scannedFiles |-> returned[Len(returned)].scannedFiles])]
              ELSE [cli EXCEPT !.pc = "exited", !.exit = "ERROR"]
  /\ UNCHANGED << ruleGroups, ignoredRules, lastIgnore, skippedFiles, excludedPaths,
                  frame, returned, fs, probe, suspended >>

\* after the reports: process.exit(HIGH_SEVERITY_FOUND) when a HIGH finding
\* is in the result, else the action returns and the process ends normally
CliExit ==
  /\ cli.pc = "report"
  /\ cli' = [cli EXCEPT !.pc = "exited",
               !.exit = IF HighSeverityCount(cli.result[1].findings) > 0
                          THEN "HIGH_SEVERITY_FOUND" ELSE "SUCCESS"]
  /\ UNCHANGED << ruleGroups, ignoredRules, lastIgnore, skippedFiles, excludedPaths,
                  frame, returned, fs, probe, suspended >>

(***************************************************************************)
(* Specifications.                                                         *)
(***************************************************************************)
Next ==
  \/ \E group \in GroupNames : registerRuleGroup(group)
  \/ \E ids \in IgnoreLists : setIgnoredRules(ids)
  \/ \E filePaths \in FileLists : runRulesOnFiles(filePaths)
  \/ runRulesOnProject
  \/ \E tree \in Trees, ok \in BOOLEAN : WalkSettles(tree, ok)
  \/ \E c \in Contents \cup { ReadError } : ReadSettles(c)
  \/ RuleSettles
  \/ ScanFileReturns
  \/ CliStart
  \/ CliResult
  \/ CliExit

Spec == Init /\ [][Next]_vars

\* every settled promise has its continuation run by the event loop
SpecLive == Spec /\ WF_vars(ScanStep)

(***************************************************************************)
(* The scan of one file of each type, or of a property list and a          *)
(* manifest, by an engine that holds the rules for code files, manifests   *)
(* and property lists.                                                     *)
(***************************************************************************)
\* the groups of registerAllRules with a rule of the model for code files
\* and manifests, in the order of the source
CodeRuleGroups ==
  << "networkRules", "manifestRules", "authenticationRules", "cryptoRules",
     "secretsRules", "debugRules" >>

\* the lists given to the engine: one file, or a/Info.plist and then the
\* manifest
ScannedLists ==
  { << p >> : p \in { PathAuth, PathConfig, PathApi, PathPkg, PathEnv, PathPlist }
                      \cup ManifestPaths }
    \cup { << PathPlist, PathManifest >> }

registerAllRules ==
  /\ cli.pc = "none"
  /\ frame.pc = "idle"
  /\ ruleGroups = << >>
  /\ ruleGroups' = CodeRuleGroups
  /\ UNCHANGED << ignoredRules, lastIgnore, skippedFiles, excludedPaths, frame, returned, fs, cli, probe, suspended >>

NextCode ==
  \/ registerAllRules
  \/ \E filePaths \in ScannedLists :
       ruleGroups = CodeRuleGroups /\ returned = << >> /\ runRulesOnFiles(filePaths)
  \/ \E c \in CodeContents \cup ConfigContents \cup ApiContents \cup XmlContents
                \cup PlistContents \cup Contents \cup { ReadError } :
       ReadSettles(c)
  \/ RuleSettles
  \/ ScanFileReturns

SpecCode == Init /\ [][NextCode]_vars

(***************************************************************************)
(* Two scans started on one RuleEngine instance without awaiting the first *)
(* (Promise.all of two calls of runRulesOnFiles).  A call runs up to its   *)
(* first await; from then on the event loop runs the continuation of       *)
(* either activation.  frame is the activation whose continuation runs     *)
(* next, suspended the one that waits meanwhile; both use the fields of    *)
(* the one instance.                                                       *)
(***************************************************************************)
\* the lists given to the two scans
InterleavedLists ==
  { l \in FileLists : l # << >> /\ Range(l) \subseteq { PathApp, PathPkg } }

\* the activation awaits readFileContent, rule.apply or scanFile
Awaiting(f) == f.pc \in { "read", "rule", "resume" }

\* runRulesOnFiles is called while the activation in frame awaits: the call
\* runs up to its first await, the earlier activation stays suspended
runRulesOnFilesMeanwhile(filePaths) ==
  /\ cli.pc = "none"
  /\ Awaiting(frame)
  /\ suspended.pc = "idle"
  /\ Len(returned) < MaxScans
  /\ suspended' = frame
  /\ UNCHANGED << ruleGroups, ignoredRules, lastIgnore, excludedPaths, fs, cli, probe >>
  /\ CallRunRulesOnFiles(filePaths)

\* the promise the suspended activation awaits settles first: its
\* continuation runs next, and the activation in frame waits (or has
\* returned)
ResumeSuspended ==
  /\ Awaiting(suspended)
  /\ Awaiting(frame) \/ frame.pc = "done"
  /\ frame' = suspended
  /\ suspended' = frame
  /\ UNCHANGED << ruleGroups, ignoredRules, lastIgnore, skippedFiles, excludedPaths,
                  returned, fs, cli, probe >>

NextInterleaved ==
  \/ registerAllRules
  \/ \E filePaths \in InterleavedLists :
       ruleGroups = CodeRuleGroups /\ runRulesOnFiles(filePaths)
  \/ \E filePaths \in InterleavedLists : runRulesOnFilesMeanwhile(filePaths)
  \/ ResumeSuspended
  \/ \E c \in Contents \cup { ReadError } : ReadSettles(c)
  \/ RuleSettles
  \/ ScanFileReturns

SpecInterleaved == Init /\ [][NextInterleaved]_vars

(***************************************************************************)
(* The classifiers of stringUtils.ts, called on a value: a string of one   *)
(* of the shapes below, or such a string with one character replaced.      *)
(***************************************************************************)
\* strings that a vendor pattern of SECRET_PATTERNS matches
SecretShapes ==
  {
    \* a JSON Web Token with a segment that begins with a digit
    <<"e","y","J","h","b","G","c","i",".","e","y","J","z","d","W","I","i",".",
      "4","f","G","h","-","k","L","_","9">>,
    \* a JSON Web Token of letters and digits
    <<"e","y","J","h","b","G","c","i",".","e","y","J","z","d","W","I","i",".",
      "S","f","l","K","x","w","R","J">>,
    \* the AWS access key of the AWS documentation
    <<"A","K","I","A","I","O","S","F","O","D","N","N","7","E","X","A","M","P",
      "L","E">>,
    \* an AWS access key with a run of digits
    <<"A","K","I","A","1","2","3","4","5","6","7","8","9","0","A","B","C","D",
      "E","F">>,
    \* the AWS secret key of the AWS documentation
    <<"w","J","a","l","r","X","U","t","n","F","E","M","I","/","K","7","M","D",
      "E","N","G","/","b","P","x","R","f","i","C","Y","E","X","A","M","P","L",
      "E","K","E","Y">>,
    \* an AWS secret key of letters and digits
    <<"a","B","3","c","D","4","e","F","5","g","H","6","i","J","7","k","L","8",
      "m","N","9","o","P","0","q","R","1","s","T","2","u","V","3","w","X","4",
      "y","Z","5","a">>,
    \* the Stripe test key of the Stripe documentation
    <<"s","k","_","t","e","s","t","_","4","e","C","3","9","H","q","L","y","j",
      "W","D","a","r","j","t","T","1","z","d","p","7","d","c">>,
    \* a Stripe live key with runs of digits
    <<"s","k","_","l","i","v","e","_","1","2","3","a","b","c","D","E","F","4",
      "5","6","g","h","i","J","K","L","7","8","9","m","n","o">>,
    \* a GitHub token of letters
    <<"g","h","p","_","a","b","c","d","e","f","g","h","i","j","k","l","m","n",
      "o","p","q","r","s","t","u","v","w","x","y","z","A","B","C","D","E","F",
      "G","H","I","J">>,
    \* a GitHub token with runs of digits
    <<"g","h","o","_","1","2","3","4","a","b","c","d","5","6","7","8","E","F",
      "G","H","9","0","1","2","i","j","k","l","3","4","5","6","M","N","O","P",
      "7","8","9","0">>
  }

\* strings of the shapes of IDENTIFIER_PATTERNS
IdentifierShapes ==
  {
    \* kebab-case
    <<"h","a","r","d","c","o","d","e","d","-","a","e","s","-","k","e","y","-",
      "2","5","6","-","b","i","t","-","v","a","l","u","e">>,
    \* a dotted path
    <<"c","o","m",".","e","x","a","m","p","l","e",".","a","p","p",".","c","o",
      "n","f","i","g">>,
    \* a colon pair
    <<"u","s","e","r",":","a","d","m","i","n">>,
    \* simple words
    <<"h","e","l","l","o"," ","s","e","c","r","e","t"," ","w","o","r","l",
      "d">>,
    \* an ALL_CAPS name
    <<"E","N","C","R","Y","P","T","I","O","N","_","K","E","Y","_","N","A","M",
      "E">>,
    \* shorter than 4 characters
    <<"k","9","!">>
  }

\* the characters that replace one character of a string
AlterChars == { "!", "a", "Z", "0", "_", "-", "." }

\* the string with one character replaced by another
Alterations(base) ==
  { [base EXCEPT ![k] = c] : k \in DOMAIN base, c \in AlterChars } \ { base }

\* the names a string literal is bound to: a variable or a property key
DeclaredNames ==
  { <<"E","N","C","R","Y","P","T","I","O","N","_","K","E","Y">>,
    <<"i","v">>,
    <<"A","W","S","_","K","E","Y">> }

InitStrings ==
  /\ \E base \in SecretShapes \cup IdentifierShapes :
       \E value \in { base } \cup Alterations(base) :
         \E node \in { "VariableDeclarator", "ObjectProperty" }, name \in DeclaredNames :
           probe = [NoProbe EXCEPT !.base = base, !.value = value,
                                   !.node = node, !.name = name]
  /\ ruleGroups = << >>
  /\ ignoredRules = {}
  /\ lastIgnore = << >>
  /\ skippedFiles = 0
  /\ excludedPaths = << >>
  /\ frame = IdleFrame
  /\ suspended = IdleFrame
  /\ returned = << >>
  /\ fs = [p \in AllPaths |-> Unknown]
  /\ cli = [pc |-> "none", exit |-> "none", result |-> Undefined]

\* isLikelyIdentifier(value) is called and returns
CallIsLikelyIdentifier ==
  /\ probe.identifier = Undefined
  /\ probe' = [probe EXCEPT !.identifier = Some(isLikelyIdentifier(probe.value))]
  /\ UNCHANGED << ruleGroups, ignoredRules, lastIgnore, skippedFiles, excludedPaths,
                  frame, returned, fs, cli, suspended >>

\* looksLikeSecret(value) is called and returns
CallLooksLikeSecret ==
  /\ probe.secret = Undefined
  /\ probe' = [probe EXCEPT !.secret = Some(looksLikeSecret(probe.value))]
  /\ UNCHANGED << ruleGroups, ignoredRules, lastIgnore, skippedFiles, excludedPaths,
                  frame, returned, fs, cli, suspended >>

\* a visitor of hardcodedEncryptionKeyRule is called on a node that binds
\* the value to the name, and returns
VisitNode ==
  /\ probe.reported = Undefined
  /\ probe' = [probe EXCEPT !.reported =
                 Some(IF probe.node = "VariableDeclarator"
                        THEN ReportsDeclarator(probe.name, probe.value)
                        ELSE ReportsProperty(probe.name, probe.value))]
  /\ UNCHANGED << ruleGroups, ignoredRules, lastIgnore, skippedFiles, excludedPaths,
                  frame, returned, fs, cli, suspended >>

NextStrings ==
  \/ CallIsLikelyIdentifier
  \/ CallLooksLikeSecret
  \/ VisitNode

SpecStrings == InitStrings /\ [][NextStrings]_vars

(***************************************************************************)
(* utils/scanComparison.ts: compareScans, called on the findings of two    *)
(* scans.  previousMap is a JavaScript Map: its entries are kept in the    *)
(* order of the first insertion of their keys, set on a key it holds       *)
(* replaces the value in place, delete removes the entry.                  *)
(***************************************************************************)
\* `${finding.ruleId}:${finding.filePath}:${finding.line || 0}`
getFindingKey(finding) ==
  << finding.ruleId, ":" >> \o finding.filePath
    \o << ":", IF finding.line = Undefined \/ finding.line = Some(0)
                 THEN "0" ELSE ToString(finding.line[1]) >>

MapHas(map, key) == \E k \in DOMAIN map : map[k].key = key

MapSet(map, key, value) ==
  IF MapHas(map, key)
    THEN [k \in DOMAIN map |->
            IF map[k].key = key THEN [key |-> key, value |-> value] ELSE map[k]]
    ELSE Append(map, [key |-> key, value |-> value])

MapDelete(map, key) == SelectSeq(map, LAMBDA entry : entry.key # key)

MapValues(map) == [k \in DOMAIN map |-> map[k].value]

\* previousFindings.forEach(finding => previousMap.set(key, finding))
RECURSIVE PreviousMap(_, _)
PreviousMap(previousFindings, map) ==
  IF previousFindings = << >>
    THEN map
    ELSE PreviousMap(Tail(previousFindings),
                     MapSet(map, getFindingKey(Head(previousFindings)),
                            Head(previousFindings)))

\* currentFindings.forEach: a finding whose key the map holds is persistent
\* and its key is deleted from the map, any other finding is new
RECURSIVE CheckCurrent(_, _)
CheckCurrent(currentFindings, acc) ==
  IF currentFindings = << >>
    THEN acc
    ELSE LET finding == Head(currentFindings)
             key     == getFindingKey(finding)
         IN  CheckCurrent(Tail(currentFindings),
               IF MapHas(acc.previousMap, key)
                 THEN [acc EXCEPT !.persistentIssues = Append(@, finding),
                                  !.previousMap = MapDelete(@, key)]
                 ELSE [acc EXCEPT !.newIssues = Append(@, finding)])

compareScans(currentFindings, previousFindings) ==
  LET done == CheckCurrent(currentFindings,
                [previousMap |-> PreviousMap(previousFindings, << >>),
                 newIssues |-> << >>, persistentIssues |-> << >>])
  IN  [newIssues        |-> done.newIssues,
       resolvedIssues   |-> MapValues(done.previousMap),
       persistentIssues |-> done.persistentIssues]

\* the findings the compared scans are made of: a finding of a manifest
\* without line (androidExportedComponentRule reports one for each exported
\* component, all alike), and findings of a/App.ts on line 1, on line 2, and
\* on line 1 with the file changed around it
ComparedFindings ==
  { [ruleId |-> "ANDROID_EXPORTED_COMPONENT", severity |-> "HIGH",
     filePath |-> PathManifest, line |-> Undefined, snippet |-> NoSnippet],
    [ruleId |-> "API_KEY_EXPOSED", severity |-> "HIGH",
     filePath |-> PathApp, line |-> Some(1), snippet |-> << "awsKey", "code" >>],
    [ruleId |-> "API_KEY_EXPOSED", severity |-> "HIGH",
     filePath |-> PathApp, line |-> Some(2), snippet |-> << "code", "awsKey" >>],
    [ruleId |-> "API_KEY_EXPOSED", severity |-> "HIGH",
     filePath |-> PathApp, line |-> Some(1), snippet |-> << "awsKey", "devGuard" >>] }

\* longest list of findings compared
MaxFindings == 2

FindingLists == UNION { [1..n -> ComparedFindings] : n \in 0..MaxFindings }

InitCompare ==
  /\ \E currentFindings \in FindingLists, previousFindings \in FindingLists :
       probe = [NoProbe EXCEPT !.currentFindings = currentFindings,
                               !.previousFindings = previousFindings]
  /\ ruleGroups = << >>
  /\ ignoredRules = {}
  /\ lastIgnore = << >>
  /\ skippedFiles = 0
  /\ excludedPaths = << >>
  /\ frame = IdleFrame
  /\ suspended = IdleFrame
  /\ returned = << >>
  /\ fs = [p \in AllPaths |-> Unknown]
  /\ cli = [pc |-> "none", exit |-> "none", result |-> Undefined]

\* compareScans(currentFindings, previousFindings) is called and returns
CallCompareScans ==
  /\ probe.comparison = Undefined
  /\ probe' = [probe EXCEPT !.comparison =
                 Some(compareScans(probe.currentFindings, probe.previousFindings))]
  /\ UNCHANGED << ruleGroups, ignoredRules, lastIgnore, skippedFiles, excludedPaths,
                  frame, returned, fs, cli, suspended >>

NextCompare == CallCompareScans

SpecCompare == InitCompare /\ [][NextCompare]_vars

(***************************************************************************)
(* Properties.  A completed scan is an element of returned: what the scan  *)
(* returned, the engine's configuration at the time, and the trace of the  *)
(* reads and rule invocations it made.                                     *)
(***************************************************************************)
\* the rule was invoked on the file during the scan
Invoked(s, id, p) ==
  \E e \in DOMAIN s.trace :
    s.trace[e] \in { << "applied", id, p >>, << "threw", id, p >> }

\* the rule's detection function threw on the file during the scan
Threw(s, id, p) == \E e \in DOMAIN s.trace : s.trace[e] = << "threw", id, p >>

\* the read of the file was attempted during the scan
Attempted(s, p) ==
  \E e \in DOMAIN s.trace : s.trace[e] \in { << "read", p >>, << "readError", p >> }

\* the findings of the result that a rule reported on a file
FindingsOf(s, id, p) ==
  SelectSeq(s.findings, LAMBDA f : f.ruleId = id /\ f.filePath = p)

\* the findings of the result on a file
FindingsOn(s, p) == SelectSeq(s.findings, LAMBDA f : f.filePath = p)

\* what the rule reports on the file as the file system holds it, after the
\* debug-context filter
Reported(rule, p) ==
  enrichFindingsWithDebugContext(
    RuleApply(rule, prepareContext(p, fs[p])).findings, fs[p])

\* C1: in a completed scan, when a rule threw on file X, the result holds no
\* finding of that rule for X, every other rule applicable to X was invoked
\* on X and, unless it threw too, all it reports on X is in the result, and
\* every rule applicable to a later readable file of the list was invoked
\* on it.
RuleFaultIsolation ==
  \A s \in Range(returned) : \A k \in DOMAIN s.filePaths :
    LET X == s.filePaths[k]
        applicable == getApplicableRules(s.ruleGroups, s.ignoredRules, X)
    IN  \A t \in DOMAIN applicable :
          Threw(s, applicable[t].id, X) =>
            /\ FindingsOf(s, applicable[t].id, X) = << >>
            /\ \A o \in DOMAIN applicable :
                 o # t =>
                   /\ Invoked(s, applicable[o].id, X)
                   /\ ~Threw(s, applicable[o].id, X) =>
                        FindingsOf(s, applicable[o].id, X) = Reported(applicable[o], X)
            /\ \A j \in (k + 1)..Len(s.filePaths) :
                 LET later == s.filePaths[j]
                 IN  fs[later] \in Contents =>
                       \A rule \in Range(getApplicableRules(
                                           s.ruleGroups, s.ignoredRules, later)) :
                         Invoked(s, rule.id, later)

\* a scan of a/package.json then a/App.ts in which NPM_VULNERABLE_DEPENDENCY
\* threw on the first file, the rules registered before and after it still
\* reported on that file, and API_KEY_EXPOSED reported on the second file
RuleFaultIsolationWitness ==
  \E s \in Range(returned) :
    /\ s.filePaths = << PathPkg, PathApp >>
    /\ Threw(s, "NPM_VULNERABLE_DEPENDENCY", PathPkg)
    /\ FindingsOf(s, "API_KEY_EXPOSED", PathPkg) # << >>
    /\ FindingsOf(s, "DEPRECATED_NPM_PACKAGE", PathPkg) # << >>
    /\ FindingsOf(s, "API_KEY_EXPOSED", PathApp) # << >>

\* the positions of the enumerated files whose read fails
ReadErrors(filePaths) == { k \in DOMAIN filePaths : fs[filePaths[k]] = ReadError }

\* C2: a failed read adds exactly one to the skipped-file counter (while a
\* scan runs the counter equals the number of failed reads so far, and the
\* count a scan returns is the number of its files whose read fails), no
\* rule is invoked on the file, the result has no finding on it, and the
\* read of every file of the list is attempted.
ReadFailureSkipsFile ==
  /\ ScanRunning =>
       skippedFiles = Cardinality({ e \in DOMAIN frame.trace :
                                      frame.trace[e][1] = "readError" })
  /\ \A s \in Range(returned) :
       /\ s.skippedFiles = SkippedField(Cardinality(ReadErrors(s.filePaths)))
       /\ \A k \in DOMAIN s.filePaths :
            LET X == s.filePaths[k]
            IN  /\ Attempted(s, X)
                /\ fs[X] = ReadError =>
                     /\ \A id \in RuleIds : ~Invoked(s, id, X)
                     /\ FindingsOn(s, X) = << >>

\* a scan of a/App.ts then a/package.json in which the first read failed:
\* one skipped file, and findings on the second file
ReadFailureSkipsFileWitness ==
  \E s \in Range(returned) :
    /\ s.filePaths = << PathApp, PathPkg >>
    /\ fs[PathApp] = ReadError
    /\ s.skippedFiles = Some(1)
    /\ FindingsOn(s, PathPkg) # << >>

\* C3: under SpecLive, a scan that has its file list reaches Done, whatever
\* reads fail, files fail to parse and rules throw; a scan is only ever
\* rejected while it awaits the file walker, and a scan that is Done has
\* returned a result.
ScanTerminates ==
  /\ (frame.pc \in { "read", "rule", "resume" }) ~> (frame.pc = "done")
  /\ [][frame'.pc = "failed" => frame.pc \in { "walk", "failed" }]_vars
  /\ [](frame.pc = "done" =>
          /\ returned # << >>
          /\ returned[Len(returned)].filePaths = frame.filePaths)

\* a scan that is Done after a failed read, a file that failed to parse and
\* a rule that threw
ScanTerminatesWitness ==
  /\ frame.pc = "done"
  /\ \E s \in Range(returned) :
       /\ s.trace = frame.trace
       /\ \E p \in Paths : fs[p] = ReadError /\ Attempted(s, p)
       /\ \E p \in Paths :
            /\ \E k \in DOMAIN fs[p].lines : fs[p].lines[k] = "syntaxErr"
            /\ Attempted(s, p)
            /\ \E id \in RuleIds : Threw(s, id, p)

\* String.prototype.toUpperCase
toUpperCase(s) ==
  [k \in 1..Len(s) |->
     IF \E c \in DOMAIN LowerOf : LowerOf[c] = s[k]
       THEN CHOOSE c \in DOMAIN LowerOf : LowerOf[c] = s[k]
       ELSE s[k]]

\* the test, mock, debug and vendor markers of paths
NamedMarkers ==
  { <<"/","_","_","t","e","s","t","s","_","_","/">>,
    <<"/","_","_","m","o","c","k","s","_","_","/">>,
    <<"/","t","e","s","t","/">>,
    <<"/","t","e","s","t","s","/">>,
    <<".","t","e","s","t",".">>,
    <<".","s","p","e","c",".">>,
    <<"/","d","e","b","u","g","/">>,
    <<"/","d","e","v","/">>,
    <<"s","t","o","r","y","b","o","o","k">>,
    <<"n","o","d","e","_","m","o","d","u","l","e","s">>,
    <<"/","v","e","n","d","o","r","/">> }

\* the path contains one of the markers, in whatever case
HasNamedMarker(filePath) ==
  \E m \in NamedMarkers : includes(toLowerCase(filePath), m)

\* a package.json whose path holds the marker: src<marker>package.json
MarkedPath(m) == <<"s","r","c">> \o m \o PackageJson

\* the same with the marker in upper case
UpperMarkedPath(m) == <<"s","r","c">> \o toUpperCase(m) \o PackageJson

\* whatever a rule of the model reports on a path that holds one of the
\* markers, in lower or in upper case, and whatever the content, the
\* debug-context filter removes it
MarkedPathsSuppressed ==
  \A m \in NamedMarkers : \A c \in Contents :
    \A rule \in Range(getAllRules(AllRuleGroups, {})) :
      \A p \in { MarkedPath(m), UpperMarkedPath(m) } :
        enrichFindingsWithDebugContext(
          RuleApply(rule, prepareContext(p, c)).findings, c) = << >>

\* C4: no finding of a completed scan has a file path that contains, in
\* whatever case, one of the test/mock/debug/vendor markers; on such a path
\* the findings of every rule are removed whatever the content is.
DebugPathSuppressed ==
  /\ \A s \in Range(returned) :
       \A k \in DOMAIN s.findings : ~HasNamedMarker(s.findings[k].filePath)
  /\ MarkedPathsSuppressed

\* a scan of a/package.json and a/Test/package.json, both holding the same
\* content: the rules were applied to both, the first has findings in the
\* result and the second, whose path holds /test/ in another case, has none
DebugPathSuppressedWitness ==
  \E s \in Range(returned) :
    /\ s.filePaths = << PathPkg, PathTestPkg >>
    /\ fs[PathPkg] = Vuln /\ fs[PathTestPkg] = Vuln
    /\ HasNamedMarker(PathTestPkg) /\ ~HasNamedMarker(PathPkg)
    /\ \A id \in { "API_KEY_EXPOSED", "NPM_VULNERABLE_DEPENDENCY" } :
         /\ << "applied", id, PathTestPkg >> \in Range(s.trace)
         /\ FindingsOf(s, id, PathPkg) # << >>
    /\ FindingsOn(s, PathTestPkg) = << >>

\* the rules of the registered groups, in registration order
RegisteredRules(groups) ==
  Flatten([g \in 1..Len(groups) |-> RuleGroups[groups[g]]])

\* a file type of the rule is a suffix of the path
SuffixEligible(rule, filePath) ==
  \E t \in DOMAIN rule.fileTypes : endsWith(filePath, rule.fileTypes[t])

\* a file type of the rule equals the extension of the path
ExtensionEligible(rule, filePath) ==
  \E t \in DOMAIN rule.fileTypes : rule.fileTypes[t] = getFileExtension(filePath)

\* C5 as stated: the applicable rules of the file being scanned are the
\* registered rules, in registration order, that are not ignored and have a
\* declared file type equal to the extension of the file.
ApplicableByExtension ==
  frame.context # NoContext =>
    frame.applicableRules =
      SelectSeq(RegisteredRules(ruleGroups),
                LAMBDA rule : /\ rule.id \notin ignoredRules
                              /\ ExtensionEligible(rule, frame.context.filePath))

\* C5, amended: the applicable rules of the file being scanned are the
\* registered rules, in registration order, that are not ignored and have a
\* declared file type that is a suffix of the file path.
ApplicableBySuffix ==
  frame.context # NoContext =>
    frame.applicableRules =
      SelectSeq(RegisteredRules(ruleGroups),
                LAMBDA rule : /\ rule.id \notin ignoredRules
                              /\ SuffixEligible(rule, frame.context.filePath))

\* a/package.json, of extension .json, is being scanned and a rule that
\* declares package.json and no .json is among its applicable rules
ApplicableBySuffixWitness ==
  /\ frame.context.filePath = PathPkg
  /\ getFileExtension(PathPkg) = ExtJson
  /\ \E k \in DOMAIN frame.applicableRules :
       /\ frame.applicableRules[k].id = "NPM_VULNERABLE_DEPENDENCY"
       /\ ~ExtensionEligible(frame.applicableRules[k], PathPkg)
       /\ SuffixEligible(frame.applicableRules[k], PathPkg)

FileIndex(s, filePath) ==
  CHOOSE k \in DOMAIN s.filePaths : s.filePaths[k] = filePath

\* the position of the rule in registration order
RuleIndex(s, id) ==
  CHOOSE k \in DOMAIN RegisteredRules(s.ruleGroups) :
    RegisteredRules(s.ruleGroups)[k].id = id

\* C7: in the findings of a completed scan, a finding f before a finding g
\* is of a file enumerated before the file of g, or of the same file and of
\* a rule registered no later than the rule of g.
FindingsOrdered ==
  \A s \in Range(returned) :
    \A a, b \in DOMAIN s.findings :
      a < b =>
        LET f == s.findings[a]
            g == s.findings[b]
        IN  \/ FileIndex(s, f.filePath) < FileIndex(s, g.filePath)
            \/ /\ f.filePath = g.filePath
               /\ RuleIndex(s, f.ruleId) <= RuleIndex(s, g.ruleId)

\* a scan of a/package.json then a/App.ts with npmVulnerabilityRules
\* registered before secretsRules: on the first file the finding of
\* NPM_VULNERABLE_DEPENDENCY (line 1) precedes the one of API_KEY_EXPOSED
\* (line 2), and both precede the finding on the second file
FindingsOrderedWitness ==
  \E s \in Range(returned) :
    /\ s.filePaths = << PathPkg, PathApp >>
    /\ s.ruleGroups = << "npmVulnerabilityRules", "secretsRules" >>
    /\ Len(s.findings) >= 3
    /\ s.findings[1].ruleId = "NPM_VULNERABLE_DEPENDENCY"
    /\ s.findings[Len(s.findings) - 1].ruleId = "API_KEY_EXPOSED"
    /\ s.findings[Len(s.findings) - 1].filePath = PathPkg
    /\ s.findings[Len(s.findings)].filePath = PathApp

Enumerated(s) ==
  IF s.entry = "files" THEN s.given
  ELSE LET fileGroup == walkProjectFiles(s.given)
       IN  fileGroup.jsFiles \o fileGroup.jsonFiles
             \o fileGroup.xmlFiles \o fileGroup.plistFiles

SkippedOf(result) ==
  IF "skippedFiles" \in DOMAIN result THEN result.skippedFiles ELSE Undefined

\* C11: after a completed scan, the value runRulesOn* returned and the
\* ScanResult the scan command hands to the reporters both carry the number
\* of enumerated files whose read failed in that scan (absent when none
\* failed).
ResultCarriesSkippedCount ==
  /\ \A s \in Range(returned) :
       SkippedOf(s) = SkippedField(Cardinality(ReadErrors(s.filePaths)))
  /\ (cli.pc \in { "report", "exited" } /\ cli.result # Undefined /\ returned # << >>) =>
       SkippedOf(cli.result[1]) =
         SkippedField(Cardinality(ReadErrors(returned[Len(returned)].filePaths)))


\* the extensions prepareContext builds a representation for
ParsedExtensions == { ExtJs, ExtJsx, ExtTs, ExtTsx, ExtJson, ExtXml, ExtPlist }

\* C12 as stated: in a completed scan, on a file whose extension is none of
\* .js, .jsx, .ts, .tsx, .json, .xml, .plist no rule was invoked and the
\* result has no finding.
UnknownExtensionInert ==
  \A s \in Range(returned) : \A k \in DOMAIN s.filePaths :
    LET X == s.filePaths[k]
    IN  getFileExtension(X) \notin ParsedExtensions =>
          /\ \A id \in RuleIds : ~Invoked(s, id, X)
          /\ FindingsOn(s, X) = << >>

\* C12, amended: a file whose extension is none of the seven gets a context
\* with its path and raw text and no tree, configuration, XML or plist
\* value; in a completed scan the rules invoked on it, when it is readable,
\* are exactly the registered rules that are not ignored and declare a file
\* type that is a suffix of its path, and every finding on it is reported
\* by one of them.
UnknownExtensionRawTextOnly ==
  /\ (frame.context # NoContext
        /\ getFileExtension(frame.context.filePath) \notin ParsedExtensions) =>
       /\ ~frame.context.ast /\ ~frame.context.config
       /\ ~frame.context.xmlContent /\ ~frame.context.plistContent
       /\ frame.context.fileContent = fs[frame.context.filePath]
  /\ \A s \in Range(returned) : \A k \in DOMAIN s.filePaths :
       LET X == s.filePaths[k]
           declared(rule) == rule.id \notin s.ignoredRules /\ SuffixEligible(rule, X)
       IN  (getFileExtension(X) \notin ParsedExtensions /\ fs[X] \in Contents) =>
             /\ \A rule \in Range(RegisteredRules(s.ruleGroups)) :
                  Invoked(s, rule.id, X) <=> declared(rule)
             /\ \A rule \in Range(RegisteredRules(s.ruleGroups)) :
                  declared(rule) => FindingsOf(s, rule.id, X) = Reported(rule, X)
             /\ \A n \in DOMAIN s.findings :
                  s.findings[n].filePath = X =>
                    \E rule \in Range(RegisteredRules(s.ruleGroups)) :
                      rule.id = s.findings[n].ruleId /\ declared(rule)

\* a scan of a list of files that names a/.env, which holds a key: both
\* rules of secretsRules, which declare .env, were invoked on it and each
\* has a finding on it in the result
UnknownExtensionRawTextOnlyWitness ==
  \E s \in Range(returned) :
    /\ s.entry = "files"
    /\ PathEnv \in Range(s.filePaths)
    /\ getFileExtension(PathEnv) = ExtEnv
    /\ fs[PathEnv] = Vuln
    /\ Invoked(s, "API_KEY_EXPOSED", PathEnv)
    /\ Invoked(s, "ENV_FILE_COMMITTED", PathEnv)
    /\ FindingsOf(s, "API_KEY_EXPOSED", PathEnv) # << >>
    /\ FindingsOf(s, "ENV_FILE_COMMITTED", PathEnv) # << >>

\* the text of the file is not accepted by the parser
Unparsable(c) == \E k \in DOMAIN c.lines : c.lines[k] = "syntaxErr"

\* what a rule reports on the file as the file system holds it when the
\* context carries a tree, after the debug-context filter
ReportedWithTree(rule, p) ==
  enrichFindingsWithDebugContext(
    RuleApply(rule, [prepareContext(p, fs[p]) EXCEPT !.ast = TRUE]).findings, fs[p])

\* C13: a code file that cannot be parsed is not counted as skipped, its
\* context carries no tree, every applicable rule is invoked on it, the
\* tree-dependent rule INSECURE_RANDOM reports nothing on it, and the
\* raw-text rules API_KEY_EXPOSED and WEAK_TLS_CONFIGURATION report on it
\* what they report when the context carries a tree.
UnparsableFileStillScanned ==
  /\ (frame.context # NoContext /\ Unparsable(frame.context.fileContent)) =>
       ~frame.context.ast
  /\ \A s \in Range(returned) : \A k \in DOMAIN s.filePaths :
       LET X == s.filePaths[k]
       IN  (X = PathAuth /\ fs[X] \in CodeContents /\ Unparsable(fs[X])) =>
             /\ << "readError", X >> \notin Range(s.trace)
             /\ s.skippedFiles = Undefined
             /\ \A rule \in Range(RegisteredRules(s.ruleGroups)) :
                  SuffixEligible(rule, X) => Invoked(s, rule.id, X)
             /\ FindingsOf(s, "INSECURE_RANDOM", X) = << >>
             /\ \A rule \in { apiKeyDetectionRule, weakTlsConfigurationRule } :
                  FindingsOf(s, rule.id, X) = ReportedWithTree(rule, X)

\* a scan of a/auth.ts, which holds a TLSv1.0 option, a Math.random() call
\* in generateSessionId and a syntax error: the three rules for code were
\* invoked, WEAK_TLS_CONFIGURATION has its finding, and INSECURE_RANDOM,
\* which reports the call when there is a tree, has none
UnparsableFileStillScannedWitness ==
  \E s \in Range(returned) :
    /\ s.filePaths = << PathAuth >>
    /\ fs[PathAuth].lines = << "tlsV1", "sessionIdRandom", "syntaxErr" >>
    /\ s.skippedFiles = Undefined
    /\ Invoked(s, "WEAK_TLS_CONFIGURATION", PathAuth)
    /\ Invoked(s, "INSECURE_RANDOM", PathAuth)
    /\ Invoked(s, "API_KEY_EXPOSED", PathAuth)
    /\ Len(FindingsOf(s, "WEAK_TLS_CONFIGURATION", PathAuth)) = 1
    /\ FindingsOf(s, "INSECURE_RANDOM", PathAuth) = << >>
    /\ ReportedWithTree(insecureRandomRule, PathAuth) # << >>

\* C14: whenever isLikelyIdentifier returns true for a value,
\* looksLikeSecret returns false for it, whatever its length, its entropy
\* and the vendor patterns it matches.
IdentifierOverrideDominates ==
  (probe.identifier = Some(TRUE) /\ probe.secret # Undefined) =>
    probe.secret = Some(FALSE)

\* the access key of the AWS documentation, which the AWS pattern matches,
\* is an identifier by CAMEL_SNAKE_CASE, and no secret
IdentifierOverrideDominatesWitness ==
  /\ probe.value = <<"A","K","I","A","I","O","S","F","O","D","N","N","7","E","X","A","M","P","L","E">>
  /\ AWS_ACCESS_KEY(probe.value)
  /\ probe.identifier = Some(TRUE)
  /\ probe.secret = Some(FALSE)

\* one of the vendor patterns of looksLikeSecret matches the value
MatchesVendorPattern(value) ==
  \/ JWT(value)
  \/ AWS_ACCESS_KEY(value)
  \/ AWS_SECRET_KEY(value)
  \/ STRIPE_KEY(value)
  \/ GITHUB_TOKEN(value)

\* C15: looksLikeSecret returns true for a value that a vendor pattern
\* (JWT, AWS access key, AWS secret key, Stripe key, GitHub token) matches,
\* and false for such a value with one character replaced so that no
\* vendor pattern matches it any more.
VendorFormatBoundary ==
  probe.secret # Undefined =>
    /\ MatchesVendorPattern(probe.value) => probe.secret = Some(TRUE)
    /\ ( /\ MatchesVendorPattern(probe.base)
         /\ probe.value \in Alterations(probe.base)
         /\ ~MatchesVendorPattern(probe.value) ) => probe.secret = Some(FALSE)

\* the findings of the result that a rule reported on a line of a file
FindingsOnLine(s, id, p, n) ==
  SelectSeq(s.findings,
            LAMBDA f : f.ruleId = id /\ f.filePath = p /\ f.line = Some(n))

\* C16: a scan of a code file that parses and holds, on line n, the
\* declaration const ENCRYPTION_KEY = 'hardcoded-aes-key-256-bit-value';
\* returns exactly one HARDCODED_ENCRYPTION_KEY finding on line n, and it
\* is of HIGH severity.
EncryptionKeyDeclarationReported ==
  \A s \in Range(returned) :
    (s.filePaths = << PathAuth >> /\ fs[PathAuth] \in CodeContents
       /\ ~Unparsable(fs[PathAuth])) =>
      \A n \in DOMAIN fs[PathAuth].lines :
        fs[PathAuth].lines[n] = "encryptionKeyDecl" =>
          /\ Len(FindingsOnLine(s, "HARDCODED_ENCRYPTION_KEY", PathAuth, n)) = 1
          /\ FindingsOnLine(s, "HARDCODED_ENCRYPTION_KEY", PathAuth, n)[1].severity = "HIGH"

\* the Math.random() calls of a text, by the index of their first character
RandomCallsIn(text) ==
  { k \in 0..(Len(text) - 13) :
      SubSeq(text, k + 1, k + 13) = <<"M","a","t","h",".","r","a","n","d","o","m","(",")">> }

\* the lower-cased text from 200 characters before a call to 200 characters
\* after it
WindowAround(text, call) ==
  LET first == IF call > 200 THEN call - 200 ELSE 0
      last  == IF call + 13 + 200 < Len(text) THEN call + 13 + 200 ELSE Len(text)
  IN  toLowerCase(SubSeq(text, first + 1, last))

\* no excluded-purpose word and at least one security-purpose pattern
SecurityPurpose(window) ==
  /\ \A p \in DOMAIN nonSecurityPatterns : ~includes(window, nonSecurityPatterns[p])
  /\ \E p \in DOMAIN securityPatterns : TestSecurityPattern(securityPatterns[p], window)

\* C17: a scan of a parsed code file whose path has no excluded marker
\* returns, for each line, as many INSECURE_RANDOM findings as the line has
\* Math.random() calls whose window (200 characters before to 200 after,
\* lower-cased) holds no excluded-purpose word and matches a
\* security-purpose pattern; a file that is the call in generateSessionId
\* has one finding, a file that is the call in getRandomChartColor none.
InsecureRandomContextGate ==
  \A s \in Range(returned) :
    (s.filePaths = << PathAuth >> /\ fs[PathAuth] \in CodeContents
       /\ ~Unparsable(fs[PathAuth])) =>
      LET lines == fs[PathAuth].lines
          text  == FileText(lines)
      IN  /\ \A n \in DOMAIN lines :
               Len(FindingsOnLine(s, "INSECURE_RANDOM", PathAuth, n)) =
                 Cardinality({ call \in RandomCallsIn(text) :
                                 /\ getLineNumber(text, call) = n
                                 /\ SecurityPurpose(WindowAround(text, call)) })
          /\ lines = << "sessionIdRandom" >> =>
               Len(FindingsOf(s, "INSECURE_RANDOM", PathAuth)) = 1
          /\ lines = << "chartColorRandom" >> =>
               FindingsOf(s, "INSECURE_RANDOM", PathAuth) = << >>

\* a scan of a/auth.ts that holds the call in getRandomChartColor, a
\* comment of 200 characters and the call in generateSessionId: the chart
\* and color of line 1 are outside the window of the call of line 3, which
\* is reported, and inside the window of the call of line 1, which is not
InsecureRandomContextGateWitness ==
  \E s \in Range(returned) :
    /\ s.filePaths = << PathAuth >>
    /\ ~InsecureRandomSkipsPath(PathAuth)
    /\ fs[PathAuth].lines = << "chartColorRandom", "longComment", "sessionIdRandom" >>
    /\ Len(FindingsOnLine(s, "INSECURE_RANDOM", PathAuth, 3)) = 1
    /\ FindingsOnLine(s, "INSECURE_RANDOM", PathAuth, 1) = << >>
    /\ Len(FindingsOf(s, "INSECURE_RANDOM", PathAuth)) = 1

\* the order of the severities
SeverityRank == [LOW |-> 1, MEDIUM |-> 2, HIGH |-> 3]

\* C18: every finding of a completed scan carries the id of a registered
\* rule and a severity that is the declared severity of that rule or a
\* lower one.
SeverityWithinDeclared ==
  \A s \in Range(returned) : \A n \in DOMAIN s.findings :
    \E rule \in Range(RegisteredRules(s.ruleGroups)) :
      /\ rule.id = s.findings[n].ruleId
      /\ SeverityRank[s.findings[n].severity] <= SeverityRank[rule.severity]

RECURSIVE ReportsOfRules(_, _)
ReportsOfRules(rules, ctx) ==
  IF rules = << >>
    THEN << >>
    ELSE LET outcome == RuleApply(Head(rules), ctx)
         IN  (IF outcome.threw THEN << >> ELSE outcome.findings)
               \o ReportsOfRules(Tail(rules), ctx)

\* the findings of a file scanned alone: a function of its path, its
\* content, the registered groups and the ignore set
FindingsOfFileAlone(filePath, fileContent, groups, ignored) ==
  IF fileContent = ReadError
    THEN << >>
    ELSE SelectSeq(ReportsOfRules(getApplicableRules(groups, ignored, filePath),
                                  prepareContext(filePath, fileContent)),
                   LAMBDA f : ~isInDebugContext(fileContent.lines, f.snippet, f.filePath))

CleartextManifestReportedOnce ==
  \A s \in Range(returned) : \A k \in DOMAIN s.filePaths :
    LET X == s.filePaths[k]
        reported == FindingsOf(s, "ANDROID_CLEARTEXT_ENABLED", X)
    IN  /\ "manifestRules" \in Range(s.ruleGroups)
        /\ "ANDROID_CLEARTEXT_ENABLED" \notin s.ignoredRules
        /\ fs[X] # ReadError
        /\ endsWith(X, ExtXml) /\ includes(X, <<"A","n","d","r","o","i","d","M","a","n","i","f","e","s","t">>)
        /\ ~isInDebugContext(fs[X].lines, NoSnippet, X)
        => IF \E n \in DOMAIN fs[X].lines : fs[X].lines[n] = "cleartextTrue"
             THEN /\ Len(reported) = 1
                  /\ reported[1].severity = "HIGH"
                  /\ reported[1].line = Undefined
             ELSE reported = << >>

\* a manifest that sets the attribute on two lines has been scanned and has
\* one finding
CleartextManifestReportedOnceWitness ==
  \E s \in Range(returned) :
    /\ s.filePaths = << PathManifest >>
    /\ Cardinality({ n \in DOMAIN fs[PathManifest].lines :
                       fs[PathManifest].lines[n] = "cleartextTrue" }) >= 2
    /\ Len(FindingsOf(s, "ANDROID_CLEARTEXT_ENABLED", PathManifest)) = 1

\* the representations a context holds
Representations(ctx) ==
  { r \in { "ast", "config", "xmlContent", "plistContent" } :
      \/ r = "ast" /\ ctx.ast
      \/ r = "config" /\ ctx.config
      \/ r = "xmlContent" /\ ctx.xmlContent
      \/ r = "plistContent" /\ ctx.plistContent }

\* C22: the context a rule is applied to holds the path and the content of
\* the file being scanned (never those of another file of the list) and at
\* most one representation, which the extension of the path determines:
\* ast for .js, .jsx, .ts, .tsx when the source parsed, config for .json
\* when the JSON parsed, xmlContent for .xml, plistContent for .plist.
ContextHoldsOneRepresentation ==
  frame.pc = "rule" =>
    LET X   == frame.filePaths[frame.i + 1]
        ctx == frame.context
        ext == getFileExtension(X)
    IN  /\ ctx.filePath = X
        /\ ctx.fileContent = fs[X]
        /\ fs[X] \notin { ReadError, Unknown }
        /\ Cardinality(Representations(ctx)) <= 1
        /\ ctx.ast <=> /\ ext \in { ExtJs, ExtJsx, ExtTs, ExtTsx }
                       /\ \A n \in DOMAIN fs[X].lines : fs[X].lines[n] # "syntaxErr"
        /\ ctx.config <=> /\ ext = ExtJson
                          /\ \A n \in DOMAIN fs[X].lines : fs[X].lines[n] # "syntaxErr"
        /\ ctx.xmlContent <=> ext = ExtXml
        /\ ctx.plistContent <=> ext = ExtPlist

\* the second file of a list, a manifest read after a property list, is
\* handed to a rule with its content as XML and nothing else
ContextHoldsOneRepresentationWitness ==
  /\ frame.pc = "rule"
  /\ frame.i = 1
  /\ frame.filePaths = << PathPlist, PathManifest >>
  /\ fs[PathPlist] = AtsDisabled
  /\ frame.context.filePath = PathManifest
  /\ Representations(frame.context) = { "xmlContent" }

\* how many times the scan did one of the things named
TimesDone(s, entries) ==
  Cardinality({ e \in DOMAIN s.trace : s.trace[e] \in entries })

\* C23: in a completed scan (each group registered once, no path twice in
\* the list), every file of the list was read exactly once, and every rule
\* applicable to a file was invoked on it exactly once when the read
\* succeeded, whether the rule threw or not, and never when the read
\* failed: nothing is attempted a second time.
EachFileReadOnceEachRuleInvokedOnce ==
  \A s \in Range(returned) : \A k \in DOMAIN s.filePaths :
    LET X == s.filePaths[k]
        applicable == getApplicableRules(s.ruleGroups, s.ignoredRules, X)
    IN  /\ TimesDone(s, { << "read", X >>, << "readError", X >> }) = 1
        /\ TimesDone(s, { << "readError", X >> }) = 1 <=> fs[X] = ReadError
        /\ \A r \in DOMAIN applicable :
             TimesDone(s, { << "applied", applicable[r].id, X >>,
                            << "threw", applicable[r].id, X >> }) =
               IF fs[X] = ReadError THEN 0 ELSE 1

\* a completed scan of two files: the read of the first failed, and a rule
\* threw on the second while another reported
EachFileReadOnceEachRuleInvokedOnceWitness ==
  \E s \in Range(returned) :
    /\ Len(s.filePaths) = 2
    /\ fs[s.filePaths[1]] = ReadError
    /\ getApplicableRules(s.ruleGroups, s.ignoredRules, s.filePaths[1]) # << >>
    /\ \E id \in RuleIds : << "threw", id, s.filePaths[2] >> \in Range(s.trace)
    /\ \E id \in RuleIds : << "applied", id, s.filePaths[2] >> \in Range(s.trace)

\* the findings of the first n files of a list, each scanned alone and
\* filtered against its own content, in the order of the list
RECURSIVE FindingsOfFirst(_, _, _, _)
FindingsOfFirst(n, filePaths, groups, ignored) ==
  IF n = 0
    THEN << >>
    ELSE FindingsOfFirst(n - 1, filePaths, groups, ignored)
           \o FindingsOfFileAlone(filePaths[n], fs[filePaths[n]], groups, ignored)

\* the file a record of the trace is about
FileOf(entry) == entry[Len(entry)]

\* the read of the file and every invocation of a rule on it are over
Settled(trace, filePath, groups, ignored) ==
  /\ \E e \in DOMAIN trace : trace[e] \in { << "read", filePath >>,
                                             << "readError", filePath >> }
  /\ << "read", filePath >> \in Range(trace) =>
       LET applicable == getApplicableRules(groups, ignored, filePath)
       IN  \A r \in DOMAIN applicable :
             \E e \in DOMAIN trace :
               trace[e] \in { << "applied", applicable[r].id, filePath >>,
                              << "threw", applicable[r].id, filePath >> }

\* C24: while the scan is at file i+1 of its list (awaiting its read, a
\* rule on it, or the return of its scanFile), the read of each earlier
\* file and every rule invocation on it are over, the result holds the
\* findings of the earlier files, each filtered against its own content,
\* in the order of the list, and nothing was done yet on a later file;
\* while the read of file i+1 is awaited nothing was done on file i+1.
FilesProcessedOneAtATime ==
  frame.pc \in { "read", "rule", "resume" } =>
    /\ frame.allFindings =
         FindingsOfFirst(frame.i, frame.filePaths, ruleGroups, ignoredRules)
    /\ \A j \in 1..frame.i :
         Settled(frame.trace, frame.filePaths[j], ruleGroups, ignoredRules)
    /\ \A e \in DOMAIN frame.trace :
         \E j \in 1..(frame.i + 1) :
           /\ FileOf(frame.trace[e]) = frame.filePaths[j]
           /\ frame.pc = "read" => j <= frame.i
    /\ \A j \in (frame.i + 1)..Len(frame.filePaths) :
         frame.pc = "read" => fs[frame.filePaths[j]] = Unknown \/ returned # << >>

\* the read of the second file is awaited, the file has never been read,
\* and the result holds the findings of the first file
FilesProcessedOneAtATimeWitness ==
  /\ frame.pc = "read"
  /\ frame.i = 1
  /\ returned = << >>
  /\ fs[frame.filePaths[2]] = Unknown
  /\ frame.allFindings # << >>
  /\ \A k \in DOMAIN frame.allFindings :
       frame.allFindings[k].filePath = frame.filePaths[1]

\* the comparison key of a finding
KeyOf(finding) == << finding.ruleId, finding.filePath, finding.line >>

\* the key is the key of a finding of the list
KeyAmong(key, findings) == \E k \in DOMAIN findings : KeyOf(findings[k]) = key

\* C25: compareScans(current, previous) puts every current finding in
\* exactly one of newIssues and persistentIssues, a current finding being
\* persistent if and only if a previous finding has its (ruleId, filePath,
\* line) key; resolvedIssues holds exactly the previous findings whose key
\* no current finding has.
CompareScansPartitionsByKey ==
  probe.comparison # Undefined =>
    LET comparison == probe.comparison[1]
        current    == probe.currentFindings
        previous   == probe.previousFindings
    IN  /\ Len(comparison.newIssues) + Len(comparison.persistentIssues) = Len(current)
        /\ comparison.persistentIssues =
             SelectSeq(current, LAMBDA f : KeyAmong(KeyOf(f), previous))
        /\ comparison.newIssues =
             SelectSeq(current, LAMBDA f : ~KeyAmong(KeyOf(f), previous))
        /\ Range(comparison.resolvedIssues) =
             { previous[k] : k \in { j \in DOMAIN previous :
                                       ~KeyAmong(KeyOf(previous[j]), current) } }

\* C27: comparing the findings of a scan with themselves reports no change:
\* compareScans(F, F) has no new and no resolved issue and every finding of
\* F is persistent, also when findings of F share a (ruleId, filePath, line)
\* key.
SelfComparisonReportsNoChange ==
  (probe.comparison # Undefined /\ probe.currentFindings = probe.previousFindings) =>
    /\ probe.comparison[1].newIssues = << >>
    /\ probe.comparison[1].resolvedIssues = << >>
    /\ probe.comparison[1].persistentIssues = probe.currentFindings

\* the development guards the lines of the model hold
GuardLines == { "devGuard", "devAnd", "nodeEnvProd", "envDebug" }

\* C26: in a completed scan, a file with a line that a development-guard
\* pattern of isInDebugContext matches (if (__DEV__), __DEV__ &&, a
\* NODE_ENV comparison, process.env.DEBUG) has no finding at all, whichever
\* rules reported on it and on whichever lines.
DevelopmentGuardSuppressesFile ==
  \A s \in Range(returned) : \A k \in DOMAIN s.filePaths :
    LET X == s.filePaths[k]
    IN  (\E n \in DOMAIN fs[X].lines : fs[X].lines[n] \in GuardLines) =>
          FindingsOn(s, X) = << >>

\* a/config.ts has been scanned: two rules reported on its first line and
\* its second, the guard process.env.DEBUG is on its third line, outside the
\* snippet of the finding of the first line, and the file has no finding
DevelopmentGuardSuppressesFileWitness ==
  \E s \in Range(returned) :
    /\ s.filePaths = << PathConfig >>
    /\ fs[PathConfig].lines = << "tlsV1", "awsKey", "envDebug" >>
    /\ LET context == prepareContext(PathConfig, fs[PathConfig])
       IN  /\ Len(apiKeyDetectionApply(context)) = 1
           /\ \E f \in Range(weakTlsConfigurationApply(context)) :
                f.line = Some(1) /\ "envDebug" \notin Range(f.snippet)
    /\ << "applied", "API_KEY_EXPOSED", PathConfig >> \in Range(s.trace)
    /\ << "applied", "WEAK_TLS_CONFIGURATION", PathConfig >> \in Range(s.trace)
    /\ FindingsOn(s, PathConfig) = << >>

\* the endpoint paths and the local addresses debugEndpointsRule looks for
DebugPaths ==
  { <<"/","d","e","b","u","g","/">>, <<"/","a","p","i","/","d","e","b","u","g">>,
    <<"/","a","d","m","i","n","/","d","e","b","u","g">>,
    <<"/","_","_","d","e","b","u","g">> }

LocalAddresses ==
  { <<"l","o","c","a","l","h","o","s","t">>, <<"1","2","7",".","0",".","0",".","1">>,
    <<"1","9","2",".","1","6","8",".">>, <<"1","0",".","0",".">> }

\* the text of a line with __DEV__ or process.env.NODE_ENV in the 150
\* characters around the literal of line n
GuardedLiteral(lines, n) ==
  LET content == FileText(lines)
      before  == Len(FileText(SubSeq(lines, 1, n - 1))) + (IF n > 1 THEN 1 ELSE 0)
      line    == TextOf[lines[n]]
      first   == before + (CHOOSE q \in Occurrences(line, << "'" >>) :
                             \A p \in Occurrences(line, << "'" >>) : q <= p)
      last    == before + (CHOOSE q \in Occurrences(line, << "'" >>) :
                             \A p \in Occurrences(line, << "'" >>) : q >= p) + 1
      window  == SubSeq(content,
                        (IF first - 150 > 0 THEN first - 150 ELSE 0) + 1,
                        IF last + 150 < Len(content) THEN last + 150 ELSE Len(content))
  IN  \/ includes(window, <<"_","_","D","E","V","_","_">>)
      \/ includes(window, <<"p","r","o","c","e","s","s",".","e","n","v",".","N",
                            "O","D","E","_","E","N","V">>)

\* C28: in a completed scan of a/api.ts, whether DEBUG_ENDPOINTS_EXPOSED
\* reports the URL literal of a line depends on the literal and the 150
\* characters around it only: a literal with a debug endpoint path, no
\* local address and no development check around it is reported, also when
\* the same literal stands on an earlier line, and a literal with a local
\* address is never reported.
DebugEndpointReportDependsOnLiteralOnly ==
  \A s \in Range(returned) :
    (s.filePaths = << PathApi >> /\ fs[PathApi] # ReadError) =>
      \A n \in DOMAIN fs[PathApi].lines :
        LET kind  == fs[PathApi].lines[n]
            local == \E a \in LocalAddresses : includes(TextOf[kind], a)
            debug == \E a \in DebugPaths : includes(TextOf[kind], a)
            found == FindingsOnLine(s, "DEBUG_ENDPOINTS_EXPOSED", PathApi, n)
        IN  /\ local => found = << >>
            /\ (debug /\ ~local /\ ~GuardedLiteral(fs[PathApi].lines, n)) =>
                  Len(found) = 1

\* a/api.ts has been scanned with the same debug URL on its first two
\* lines and no development check: only the first of them is reported
DebugEndpointReportDependsOnLiteralOnlyWitness ==
  \E s \in Range(returned) :
    /\ s.filePaths = << PathApi >>
    /\ fs[PathApi].lines = << "debugUrl", "debugUrl" >>
    /\ Len(FindingsOnLine(s, "DEBUG_ENDPOINTS_EXPOSED", PathApi, 1)) = 1
    /\ FindingsOnLine(s, "DEBUG_ENDPOINTS_EXPOSED", PathApi, 2) = << >>

\* the number of entries of a kind in the trace of a scan
Entries(s, kind) == Cardinality({ e \in DOMAIN s.trace : s.trace[e][1] = kind })

\* the skipped-file count of a result, 0 when the field is absent
SkippedCount(s) == IF s.skippedFiles = Undefined THEN 0 ELSE s.skippedFiles[1]

\* C30: the scannedFiles of a completed scan is the length of the list of
\* files the scan went through, whether their read failed or no rule
\* applied to them: it is the number of reads the scan attempted, the
\* skipped-file count is at most scannedFiles, and scannedFiles minus the
\* skipped-file count is the number of files read.
ScannedFilesCountsEveryFile ==
  \A s \in Range(returned) :
    /\ s.scannedFiles = Len(s.filePaths)
    /\ s.scannedFiles = Entries(s, "read") + Entries(s, "readError")
    /\ SkippedCount(s) <= s.scannedFiles
    /\ s.scannedFiles - SkippedCount(s) = Entries(s, "read")

\* a scan of two files has returned: the read of one failed, no rule was
\* invoked on the other, which was read, and scannedFiles is 2
ScannedFilesCountsEveryFileWitness ==
  \E s \in Range(returned) :
    /\ Len(s.filePaths) = 2
    /\ s.scannedFiles = 2
    /\ s.skippedFiles = Some(1)
    /\ \E k \in DOMAIN s.filePaths :
         /\ fs[s.filePaths[k]] \notin { ReadError, Unknown }
         /\ << "read", s.filePaths[k] >> \in Range(s.trace)
         /\ \A id \in RuleIds : ~Invoked(s, id, s.filePaths[k])

\* C29: when two scans of one instance interleave at their awaits, the
\* skipped-file count each of them returns is the number of read failures
\* among its own files: the other scan neither resets nor increments it.
InterleavedScansCountTheirOwnFailures ==
  \A s \in Range(returned) : SkippedCount(s) = Entries(s, "readError")

\* a scan returned a skipped-file count of 1 although the read of each of
\* its files succeeded: the failed read belongs to the scan that was
\* suspended meanwhile
InterleavedScansCountTheirOwnFailuresWitness ==
  \E s \in Range(returned) :
    /\ suspended.pc # "idle"
    /\ s.skippedFiles = Some(1)
    /\ Entries(s, "readError") = 0
    /\ Entries(s, "read") = Len(s.filePaths)
====
